---------------------------- MODULE Spec2Model ----------------------------
(***************************************************************************)
(* Layout / profile configuration engine of the keyboard cheatsheet        *)
(* application: modifier-combination canonicalisation, lazily materialised *)
(* variants of a layer (keyboard.go), the request/response API and the     *)
(* profile store with its temp-file + rename save and its load-time repair *)
(* pass (app.go, profile.go).                                              *)
(*                                                                         *)
(* The module holds several specifications over one set of variables:      *)
(*   SpecCanon   the canonicaliser applied to bounded modifier lists       *)
(*   SpecLayout  one KeyboardLayout under keysFor/updateKey/add/remove     *)
(*   SpecCombo   the current layer under modifier names as handed in      *)
(*   SpecSave    sequential API calls with injected disk faults            *)
(*   SpecConc    concurrently dispatched API calls, step by step           *)
(*   SpecLoad    LoadProfiles on bounded profile-file contents             *)
(*   SpecStart   NewApp on every state of the profile and legacy files     *)
(*   SpecProfiles  sequential profile-management calls                     *)
(*   SpecApi     sequential cursor, layer and layout calls                 *)
(*   SpecFaults  sequential key and layer calls with injected disk faults  *)
(*   SpecExport  SpecLayout with the import of exported texts              *)
(* A specification leaves the variables of the others at their idle value. *)
(***************************************************************************)
EXTENDS Integers, Sequences, FiniteSets, TLC

VARIABLES
    activeModifiers,   \* SpecCanon: the modifier list handed to the canonicaliser
    permuted,          \* SpecCanon: a permutation of activeModifiers
    comboGet,          \* SpecCanon: combo keys computed by GetKeysForActiveModifiers
    comboUpd,          \* SpecCanon: combo keys computed by UpdateModifierKeyByActiveModifiers
    layout,            \* SpecLayout: the KeyboardLayout under test
    clock,             \* SpecLayout: the instant of the latest time.Now()
    last,              \* SpecLayout: the latest call and what it reported
    pm,                \* SpecSave, SpecConc: a.profileManager, the in-memory store
    dir,               \* SpecSave, SpecConc: the config directory, path -> inode (0: no file)
    inodes,            \* SpecSave, SpecConc: the content of every file object
    procs,             \* SpecSave, SpecConc: the API calls in progress, one per goroutine
    tick,              \* SpecSave, SpecConc: the instant time.Now() gives
    stored,            \* SpecLoad, SpecStart: the content of the profile file at the start
    loaded             \* SpecLoad, SpecStart: what LoadProfiles made of it

canonVars == <<activeModifiers, permuted, comboGet, comboUpd>>
layoutVars == <<layout, clock, last>>
appVars == <<pm, dir, inodes, procs, tick>>
loadVars == <<stored, loaded>>

vars == <<canonVars, layoutVars, appVars, loadVars>>

\* what each specification leaves alone
notCanon == <<layoutVars, appVars, loadVars>>
notLayout == <<canonVars, appVars, loadVars>>
notApp == <<canonVars, layoutVars, loadVars>>
notLoad == <<canonVars, layoutVars, appVars>>

Unset == <<>>

NoCall == [op |-> "none", layer |-> "", combo |-> "", ok |-> TRUE, created |-> FALSE]

CanonIdle ==
    /\ activeModifiers = <<>>
    /\ permuted = <<>>
    /\ comboGet = Unset
    /\ comboUpd = Unset

LayoutIdle ==
    /\ layout = <<>>
    /\ clock = 0
    /\ last = NoCall

AppIdle ==
    /\ pm = <<>>
    /\ dir = <<>>
    /\ inodes = <<>>
    /\ procs = <<>>
    /\ tick = 0

NotLoaded == [state |-> "none"]

LoadIdle ==
    /\ stored = [kind |-> "absent"]
    /\ loaded = NotLoaded

(***************************************************************************)
(* Bounds                                                                  *)
(***************************************************************************)
\* longest modifier list handed to the canonicaliser
MaxMods == 3
\* keys of a seeded layer (the code seeds 42, resp. 84)
NumKeys == 2
\* latest instant of the clock: the number of calls that may stamp modifiedAt
MaxClock == 2
\* API calls dispatched in one run of SpecSave or SpecConc
MaxCalls == 3
\* profiles of a stored profile file
MaxProfiles == 2

(***************************************************************************)
(* Strings.  Modifier names are TLA+ strings; Go compares strings          *)
(* byte-wise, so every custom name of the model carries its bytes.         *)
(***************************************************************************)
BuiltIn == {"ctrl", "shift", "alt", "gui"}
Custom  == {"fn", "hyper", "Fn"}
ModNames == BuiltIn \cup Custom

Bytes(name) ==
    CASE name = "fn"    -> <<102, 110>>
      [] name = "hyper" -> <<104, 121, 112, 101, 114>>
      [] name = "Fn"    -> <<70, 110>>
      [] name = "ctrl"  -> <<99, 116, 114, 108>>
      [] name = "shift" -> <<115, 104, 105, 102, 116>>
      [] name = "alt"   -> <<97, 108, 116>>
      [] name = "gui"   -> <<103, 117, 105>>
      [] name = ""      -> <<>>
      [] name = "a"     -> <<97>>
      [] name = "b"     -> <<98>>
      [] name = "b+a"   -> <<98, 43, 97>>

RECURSIVE BytesGreater(_, _)
\* lexicographic, byte by byte; a proper prefix is the smaller one
BytesGreater(x, y) ==
    IF x = <<>> THEN FALSE
    ELSE IF y = <<>> THEN TRUE
    ELSE IF Head(x) # Head(y) THEN Head(x) > Head(y)
    ELSE BytesGreater(Tail(x), Tail(y))

\* Go's  a > b  on strings
StrGreater(a, b) == BytesGreater(Bytes(a), Bytes(b))

RECURSIVE Join(_)
\* strings.Join(s, "+")
Join(s) ==
    IF Len(s) = 0 THEN ""
    ELSE IF Len(s) = 1 THEN s[1]
    ELSE s[1] \o "+" \o Join(Tail(s))

\* sortedMods[i], sortedMods[j] = sortedMods[j], sortedMods[i]
Swapped(s, i, j) == [s EXCEPT ![i] = s[j], ![j] = s[i]]

(***************************************************************************)
(* Combination canonicaliser.  The code carries the sort twice, once in    *)
(* GetKeysForActiveModifiers and once in                                   *)
(* UpdateModifierKeyByActiveModifiers; both copies are modelled.           *)
(***************************************************************************)
modOrder == [m \in BuiltIn |->
                CASE m = "ctrl" -> 0 [] m = "shift" -> 1 [] m = "alt" -> 2 [] m = "gui" -> 3]

\* a plausible slip: two custom names are left in the order they came in
SwapGetKeepCustom(a, b) ==
    IF a \in DOMAIN modOrder /\ b \in DOMAIN modOrder THEN modOrder[a] > modOrder[b]
    ELSE IF a \in DOMAIN modOrder /\ b \notin DOMAIN modOrder THEN FALSE
    ELSE IF a \notin DOMAIN modOrder /\ b \in DOMAIN modOrder THEN TRUE
    ELSE FALSE

\* the branch of the inner loop body: must sortedMods[i] = a and sortedMods[j] = b swap?
SwapGet(a, b) ==
    IF a \in DOMAIN modOrder /\ b \in DOMAIN modOrder THEN modOrder[a] > modOrder[b]
    ELSE IF a \in DOMAIN modOrder /\ b \notin DOMAIN modOrder THEN FALSE
    ELSE IF a \notin DOMAIN modOrder /\ b \in DOMAIN modOrder THEN TRUE
    ELSE StrGreater(a, b)

RECURSIVE SortGetFrom(_, _, _)
\* for i := 0..n-1 { for j := i+1..n-1 { ... } }, indices shifted to 1..n
SortGetFrom(s, i, j) ==
    IF i > Len(s) THEN s
    ELSE IF j > Len(s) THEN SortGetFrom(s, i + 1, i + 2)
    ELSE SortGetFrom(IF SwapGet(s[i], s[j]) THEN Swapped(s, i, j) ELSE s, i, j + 1)

SortedModsGet(mods) == SortGetFrom(mods, 1, 2)

ComboKeyGet(mods) == Join(SortedModsGet(mods))

\* a plausible slip: two built-in names are compared as strings, not by their order
SwapUpdByName(a, b) ==
    IF a \in DOMAIN modOrder /\ b \in DOMAIN modOrder THEN StrGreater(a, b)
    ELSE IF a \in DOMAIN modOrder /\ b \notin DOMAIN modOrder THEN FALSE
    ELSE IF a \notin DOMAIN modOrder /\ b \in DOMAIN modOrder THEN TRUE
    ELSE StrGreater(a, b)

SwapUpd(a, b) ==
    IF a \in DOMAIN modOrder /\ b \in DOMAIN modOrder THEN modOrder[a] > modOrder[b]
    ELSE IF a \in DOMAIN modOrder /\ b \notin DOMAIN modOrder THEN FALSE
    ELSE IF a \notin DOMAIN modOrder /\ b \in DOMAIN modOrder THEN TRUE
    ELSE StrGreater(a, b)

RECURSIVE SortUpdFrom(_, _, _)
SortUpdFrom(s, i, j) ==
    IF i > Len(s) THEN s
    ELSE IF j > Len(s) THEN SortUpdFrom(s, i + 1, i + 2)
    ELSE SortUpdFrom(IF SwapUpd(s[i], s[j]) THEN Swapped(s, i, j) ELSE s, i, j + 1)

SortedModsUpd(mods) == SortUpdFrom(mods, 1, 2)

ComboKeyUpd(mods) == Join(SortedModsUpd(mods))

(***************************************************************************)
(* Input sets                                                              *)
(***************************************************************************)
SeqsUpTo(S, n) == UNION {[1..k -> S] : k \in 0..n}

\* every reordering of the list s (s may hold a name more than once)
PermsOf(s) == {[i \in 1..Len(s) |-> s[p[i]]] : p \in Permutations(1..Len(s))}

ModLists == SeqsUpTo(ModNames, MaxMods)

(***************************************************************************)
(* SpecCanon: the canonicaliser on a list and on one of its permutations   *)
(***************************************************************************)
CanonInit ==
    /\ activeModifiers \in ModLists
    /\ permuted \in PermsOf(activeModifiers)
    /\ comboGet = Unset
    /\ comboUpd = Unset
    /\ LayoutIdle /\ AppIdle /\ LoadIdle

\* the key lookup of keysFor, for the list and for its permutation
CanonKeysFor ==
    /\ comboGet = Unset
    /\ comboGet' = <<ComboKeyGet(activeModifiers), ComboKeyGet(permuted)>>
    /\ UNCHANGED <<activeModifiers, permuted, comboUpd, notCanon>>

\* the key lookup of updateKey-under-modifiers
CanonUpdate ==
    /\ comboUpd = Unset
    /\ comboUpd' = <<ComboKeyUpd(activeModifiers), ComboKeyUpd(permuted)>>
    /\ UNCHANGED <<activeModifiers, permuted, comboGet, notCanon>>

CanonNext == CanonKeysFor \/ CanonUpdate

SpecCanon == CanonInit /\ [][CanonNext]_vars

\* C4: every permutation of a modifier list (built-in and custom names mixed)
\* yields the identical combo string, in keysFor and in updateKey-under-modifiers,
\* and the two copies of the sort agree with each other.
C4_OrderInvariant ==
    /\ comboGet # Unset => comboGet[1] = comboGet[2]
    /\ comboUpd # Unset => comboUpd[1] = comboUpd[2]
    /\ (comboGet # Unset /\ comboUpd # Unset) => comboGet[1] = comboUpd[2]

\* a three-name list with built-in and custom names, given in another order, canonicalised
C4_Witness ==
    /\ activeModifiers = <<"hyper", "shift", "ctrl">>
    /\ permuted = <<"shift", "ctrl", "hyper">>
    /\ comboGet = <<"ctrl+shift+hyper", "ctrl+shift+hyper">>
    /\ comboUpd = <<"ctrl+shift+hyper", "ctrl+shift+hyper">>


\* no name stands twice in the list
Distinct(s) == \A i, j \in 1..Len(s) : s[i] = s[j] => i = j

\* the built-in names of the list in the fixed order ctrl, shift, alt, gui
BuiltInsOf(s) ==
    LET Present(m) == \E i \in 1..Len(s) : s[i] = m
    IN  SelectSeq(<<"ctrl", "shift", "alt", "gui">>, Present)

\* the custom names of a list of distinct names, ascending
AscendingCustoms(s) ==
    LET customs == {s[i] : i \in 1..Len(s)} \ BuiltIn
    IN  CHOOSE t \in [1..Cardinality(customs) -> customs] :
            \A i, j \in 1..Cardinality(customs) : i < j => StrGreater(t[j], t[i])

CanonicalForm(s) == Join(BuiltInsOf(s) \o AscendingCustoms(s))

\* C24: canonical form.  For every list of distinct modifier names, given in any
\* order, the combo string of keysFor and of updateKey-under-modifiers is the built-in
\* names present in the order ctrl, shift, alt, gui, followed by the custom names in
\* ascending order, joined by "+".
C24_CanonicalForm ==
    Distinct(activeModifiers) =>
        /\ comboGet # Unset =>
               /\ comboGet[1] = CanonicalForm(activeModifiers)
               /\ comboGet[2] = CanonicalForm(activeModifiers)
        /\ comboUpd # Unset =>
               /\ comboUpd[1] = CanonicalForm(activeModifiers)
               /\ comboUpd[2] = CanonicalForm(activeModifiers)

\* two custom names around a built-in one, in two orders, canonicalised by both copies
\* of the sort
C24_Witness ==
    /\ activeModifiers = <<"fn", "alt", "Fn">>
    /\ permuted = <<"Fn", "fn", "alt">>
    /\ comboGet = <<"alt+Fn+fn", "alt+Fn+fn">>
    /\ comboUpd = <<"alt+Fn+fn", "alt+Fn+fn">>

\* the set of names of a modifier list
NamesOf(s) == {s[i] : i \in 1..Len(s)}

\* C36: the combo string depends only on the set of active modifier names.  Every
\* list holding the same names as the active list, with whatever multiplicities,
\* yields the combo string keysFor computed for the active list.
C36_SetOnly ==
    comboGet # Unset =>
        \A other \in ModLists :
            NamesOf(other) = NamesOf(activeModifiers) =>
                ComboKeyGet(other) = comboGet[1]

(***************************************************************************)
(* Keys and the seeded layout (keyboard.go)                                *)
(***************************************************************************)
\* a Key literal {ID, Label: "", Row, Col, Side, KeyType, Color: "#e0e0e0"}; the fields
\* the literal does not name take Go's zero value
SeedKey(id, row, col, side, keyType) ==
    [id |-> id, label |-> "", imagePath |-> "", imageData |-> "", description |-> "",
     color |-> "#e0e0e0", layer |-> "", modifiers |-> <<>>, row |-> row, col |-> col,
     side |-> side, keyType |-> keyType, customX |-> 0, customY |-> 0,
     isCustomPosition |-> FALSE]

\* the first keys of baseKeys in DefaultCorneLayout, in the order of the source
CorneKeyList ==
    <<SeedKey("L00", 0, 0, "left", "normal"), SeedKey("L10", 1, 0, "left", "normal"),
      SeedKey("L20", 2, 0, "left", "normal"), SeedKey("L01", 0, 1, "left", "normal")>>

baseKeys == SubSeq(CorneKeyList, 1, NumKeys)

\* for i := range keys { keys[i].Layer = name }
WithLayer(keys, name) == [i \in 1..Len(keys) |-> [keys[i] EXCEPT !.layer = name]]

\* a plausible slip: the new combination starts from the canonical key's content
BlankFromCopiesContent(baseKey, mods) ==
    [baseKey EXCEPT !.modifiers = mods]

\* the blank key built from baseKey when a combination is created; the same literal
\* stands in generateAllModifierCombinations and in both lazy paths
BlankFrom(baseKey, mods) ==
    [id |-> baseKey.id, label |-> "", imagePath |-> "", imageData |-> "",
     description |-> "", color |-> "#e0e0e0", layer |-> baseKey.layer,
     modifiers |-> mods, row |-> baseKey.row, col |-> baseKey.col,
     side |-> baseKey.side, keyType |-> baseKey.keyType, customX |-> baseKey.customX,
     customY |-> baseKey.customY, isCustomPosition |-> baseKey.isCustomPosition]

BlankKeys(keys, mods) == [i \in 1..Len(keys) |-> BlankFrom(keys[i], mods)]

\* modifiers := []string{"ctrl", "shift", "alt", "gui"}
builtinModifiers == <<"ctrl", "shift", "alt", "gui">>

\* i & (1 << j) != 0, j counted from 0
BitSet(i, j) == (i \div (2 ^ j)) % 2 = 1

RECURSIVE ActiveModsOf(_, _, _)
\* the modifiers whose bit is set in i, appended in the order of the list
ActiveModsOf(i, mods, j) ==
    IF j > Len(mods) THEN <<>>
    ELSE (IF BitSet(i, j - 1) THEN <<mods[j]>> ELSE <<>>) \o ActiveModsOf(i, mods, j + 1)

\* a plausible slip: every key of a generated combination carries the whole modifier
\* list instead of the names of its own combination
generateAllStampsEveryModifier(keys, mods) ==
    LET combos == {ActiveModsOf(i, mods, 1) : i \in 1..(2 ^ Len(mods) - 1)}
    IN  [k \in {Join(c) : c \in combos} |-> BlankKeys(keys, mods)]

\* the combination map generateAllModifierCombinations fills for one layer: every
\* non-empty selection of the four built-ins, keyed by the unsorted join
generateAllModifierCombinations(keys, mods) ==
    LET combos == {ActiveModsOf(i, mods, 1) : i \in 1..(2 ^ Len(mods) - 1)}
        byKey(k) == CHOOSE c \in combos : Join(c) = k
    IN  [k \in {Join(c) : c \in combos} |-> BlankKeys(keys, byKey(k))]

\* the first keys of baseKeys in DefaultTenkeylessLayout, in the order of the source
TenkeylessKeyList ==
    <<SeedKey("ESC", 0, 0, "left", "function"), SeedKey("F1", 0, 2, "left", "function"),
      SeedKey("F2", 0, 3, "left", "function"), SeedKey("F3", 0, 4, "left", "function")>>

tklBaseKeys == SubSeq(TenkeylessKeyList, 1, NumKeys)

\* the tenkeyless seed has the single layer base
DefaultTenkeylessLayout(now) ==
    [Name |-> "Tenkeyless",
     Description |-> "Standard 87-key tenkeyless keyboard layout",
     Layers |-> [n \in {"base"} |-> WithLayer(tklBaseKeys, n)],
     ModifierMaps |-> [n \in {"base"} |->
         generateAllModifierCombinations(WithLayer(tklBaseKeys, n), builtinModifiers)],
     CreatedAt |-> now,
     ModifiedAt |-> now]

DefaultCorneLayout(now) ==
    LET names == {"base", "lower", "raise"} IN
    [Name |-> "Default Corne",
     Description |-> "Standard Corne (CRKBD) 42-key layout",
     Layers |-> [n \in names |-> WithLayer(baseKeys, n)],
     ModifierMaps |-> [n \in names |->
         generateAllModifierCombinations(WithLayer(baseKeys, n), builtinModifiers)],
     CreatedAt |-> now,
     ModifiedAt |-> now]

(***************************************************************************)
(* Layout operations.  Each takes the layout kl and the instant `now` that *)
(* time.Now() gives, and yields the layout afterwards and what it returns. *)
(***************************************************************************)
\* index of the first key of the list with this id, 0 when there is none
IndexOfID(keys, id) ==
    IF \E i \in 1..Len(keys) : keys[i].id = id
    THEN CHOOSE i \in 1..Len(keys) :
            /\ keys[i].id = id
            /\ \A j \in 1..(i - 1) : keys[j].id # id
    ELSE 0

\* the combo strings stored for a layer
CombosOf(kl, layer) ==
    IF layer \in DOMAIN kl.ModifierMaps THEN DOMAIN kl.ModifierMaps[layer] ELSE {}

\* m[k] = v on a Go map
MapPut(m, k, v) == [x \in DOMAIN m \cup {k} |-> IF x = k THEN v ELSE m[x]]

\* delete(m, k)
MapDelete(m, k) == [x \in DOMAIN m \ {k} |-> m[x]]

\* a plausible slip: the lazily created variant is returned but never stored
GetKeysNoStore(kl, layer, mods, now) ==
    IF Len(mods) = 0 THEN
        [kl |-> kl, keys |-> IF layer \in DOMAIN kl.Layers THEN kl.Layers[layer] ELSE <<>>]
    ELSE
        LET sortedMods == SortedModsGet(mods)
            comboKey == Join(sortedMods)
        IN  IF layer \notin DOMAIN kl.ModifierMaps THEN [kl |-> kl, keys |-> <<>>]
            ELSE IF comboKey \in DOMAIN kl.ModifierMaps[layer]
            THEN [kl |-> kl, keys |-> kl.ModifierMaps[layer][comboKey]]
            ELSE IF layer \in DOMAIN kl.Layers
            THEN [kl |-> [kl EXCEPT !.ModifiedAt = now],
                  keys |-> BlankKeys(kl.Layers[layer], sortedMods)]
            ELSE [kl |-> kl, keys |-> <<>>]

GetKeysForActiveModifiers(kl, layer, mods, now) ==
    IF Len(mods) = 0 THEN
        [kl |-> kl, keys |-> IF layer \in DOMAIN kl.Layers THEN kl.Layers[layer] ELSE <<>>]
    ELSE
        LET sortedMods == SortedModsGet(mods)
            comboKey == Join(sortedMods)
        IN  IF layer \notin DOMAIN kl.ModifierMaps THEN [kl |-> kl, keys |-> <<>>]
            ELSE IF comboKey \in DOMAIN kl.ModifierMaps[layer]
            THEN [kl |-> kl, keys |-> kl.ModifierMaps[layer][comboKey]]
            ELSE IF layer \in DOMAIN kl.Layers
            THEN LET newComboKeys == BlankKeys(kl.Layers[layer], sortedMods) IN
                 [kl |-> [kl EXCEPT !.ModifierMaps[layer] = MapPut(@, comboKey, newComboKeys),
                                    !.ModifiedAt = now],
                  keys |-> newComboKeys]
            ELSE [kl |-> kl, keys |-> <<>>]

\* a plausible slip: a key whose id is not in the layer is added to it
UpdateKeyUpserts(kl, layer, updatedKey, now) ==
    LET i == IF layer \in DOMAIN kl.Layers THEN IndexOfID(kl.Layers[layer], updatedKey.id)
             ELSE 0
    IN  IF i # 0
        THEN [kl |-> [kl EXCEPT !.Layers[layer][i] = updatedKey, !.ModifiedAt = now],
              ok |-> TRUE]
        ELSE IF layer \in DOMAIN kl.Layers
        THEN [kl |-> [kl EXCEPT !.Layers[layer] = Append(@, updatedKey), !.ModifiedAt = now],
              ok |-> FALSE]
        ELSE [kl |-> kl, ok |-> FALSE]

\* a plausible slip: the key is written into every layer that holds its id
UpdateKeyEveryLayer(kl, layer, updatedKey, now) ==
    LET i == IF layer \in DOMAIN kl.Layers THEN IndexOfID(kl.Layers[layer], updatedKey.id)
             ELSE 0
        Written(keys) == [j \in 1..Len(keys) |->
                             IF keys[j].id = updatedKey.id THEN updatedKey ELSE keys[j]]
    IN  IF i # 0
        THEN [kl |-> [kl EXCEPT !.Layers = [n \in DOMAIN @ |-> Written(@[n])],
                                !.ModifiedAt = now],
              ok |-> TRUE]
        ELSE [kl |-> kl, ok |-> FALSE]

UpdateKey(kl, layer, updatedKey, now) ==
    LET i == IF layer \in DOMAIN kl.Layers THEN IndexOfID(kl.Layers[layer], updatedKey.id)
             ELSE 0
    IN  IF i # 0
        THEN [kl |-> [kl EXCEPT !.Layers[layer][i] = updatedKey, !.ModifiedAt = now],
              ok |-> TRUE]
        ELSE [kl |-> kl, ok |-> FALSE]

\* a plausible slip: the update is written under the combo key of the list as given,
\* without the sort
UpdateModifierKeyUnsorted(kl, layer, mods, updatedKey, now) ==
    IF Len(mods) = 0 THEN UpdateKey(kl, layer, updatedKey, now)
    ELSE
        LET comboKey == Join(mods)
        IN  IF layer \notin DOMAIN kl.ModifierMaps THEN [kl |-> kl, ok |-> FALSE]
            ELSE
              LET layerMods == kl.ModifierMaps[layer]
                  created ==
                      IF comboKey \notin DOMAIN layerMods /\ layer \in DOMAIN kl.Layers
                      THEN MapPut(layerMods, comboKey, BlankKeys(kl.Layers[layer], mods))
                      ELSE layerMods
                  i == IF comboKey \in DOMAIN created
                       THEN IndexOfID(created[comboKey], updatedKey.id) ELSE 0
              IN  IF i # 0
                  THEN [kl |-> [kl EXCEPT
                                  !.ModifierMaps[layer] =
                                      [created EXCEPT ![comboKey][i] = updatedKey],
                                  !.ModifiedAt = now],
                        ok |-> TRUE]
                  ELSE [kl |-> [kl EXCEPT !.ModifierMaps[layer] = created], ok |-> FALSE]

UpdateModifierKeyByActiveModifiers(kl, layer, mods, updatedKey, now) ==
    IF Len(mods) = 0 THEN UpdateKey(kl, layer, updatedKey, now)
    ELSE
        LET sortedMods == SortedModsUpd(mods)
            comboKey == Join(sortedMods)
        IN  IF layer \notin DOMAIN kl.ModifierMaps THEN [kl |-> kl, ok |-> FALSE]
            ELSE
              LET layerMods == kl.ModifierMaps[layer]
                  \* the combination is created when absent, before the key is looked for
                  created ==
                      IF comboKey \notin DOMAIN layerMods /\ layer \in DOMAIN kl.Layers
                      THEN MapPut(layerMods, comboKey,
                                  BlankKeys(kl.Layers[layer], sortedMods))
                      ELSE layerMods
                  i == IF comboKey \in DOMAIN created
                       THEN IndexOfID(created[comboKey], updatedKey.id) ELSE 0
              IN  IF i # 0
                  THEN [kl |-> [kl EXCEPT
                                  !.ModifierMaps[layer] =
                                      [created EXCEPT ![comboKey][i] = updatedKey],
                                  !.ModifiedAt = now],
                        ok |-> TRUE]
                  ELSE [kl |-> [kl EXCEPT !.ModifierMaps[layer] = created], ok |-> FALSE]

AddCustomLayer(kl, layerName, keys, now) ==
    [kl EXCEPT !.Layers = MapPut(@, layerName, keys),
               !.ModifierMaps = MapPut(@, layerName,
                                       generateAllModifierCombinations(keys, builtinModifiers)),
               !.ModifiedAt = now]

\* a plausible slip: the test for the protected names is missing
RemoveCustomLayerUnprotected(kl, layerName, now) ==
    IF layerName \in DOMAIN kl.Layers
    THEN [kl |-> [kl EXCEPT !.Layers = MapDelete(@, layerName),
                            !.ModifierMaps = MapDelete(@, layerName),
                            !.ModifiedAt = now],
          ok |-> TRUE]
    ELSE [kl |-> kl, ok |-> FALSE]

\* a plausible slip: the Combination Map of the layer is not deleted
RemoveCustomLayerKeepsMaps(kl, layerName, now) ==
    IF layerName \in {"base", "lower", "raise"} THEN [kl |-> kl, ok |-> FALSE]
    ELSE IF layerName \in DOMAIN kl.Layers
    THEN [kl |-> [kl EXCEPT !.Layers = MapDelete(@, layerName), !.ModifiedAt = now],
          ok |-> TRUE]
    ELSE [kl |-> kl, ok |-> FALSE]

RemoveCustomLayer(kl, layerName, now) ==
    IF layerName \in {"base", "lower", "raise"} THEN [kl |-> kl, ok |-> FALSE]
    ELSE IF layerName \in DOMAIN kl.Layers
    THEN [kl |-> [kl EXCEPT !.Layers = MapDelete(@, layerName),
                            !.ModifierMaps = MapDelete(@, layerName),
                            !.ModifiedAt = now],
          ok |-> TRUE]
    ELSE [kl |-> kl, ok |-> FALSE]

\* the keys App.AddCustomLayer hands to AddCustomLayer: the default Corne base keys
\* with the new layer's name and an empty modifier list
NewLayerKeys(layerName) ==
    [j \in 1..Len(baseKeys) |->
        [id |-> baseKeys[j].id, label |-> baseKeys[j].label, imagePath |-> "",
         imageData |-> "", description |-> "", color |-> baseKeys[j].color,
         layer |-> layerName, modifiers |-> <<>>, row |-> baseKeys[j].row,
         col |-> baseKeys[j].col, side |-> baseKeys[j].side,
         keyType |-> baseKeys[j].keyType, customX |-> 0, customY |-> 0,
         isCustomPosition |-> FALSE]]


(***************************************************************************)
(* SpecLayout: one seeded layout under the layout operations               *)
(***************************************************************************)
LayerInputs == {"base", "nav"}
RemoveInputs == {"raise", "nav", "lower"}
\* layers the API adds: a custom name and, in the Tenkeyless layout, the name lower
AddInputs == {"nav", "lower"}

\* modifier lists of the calls: empty, built-in and custom names, each list of two
\* names in both orders
LayoutModLists ==
    {<<>>, <<"ctrl", "shift">>, <<"shift", "ctrl">>, <<"fn", "ctrl">>, <<"ctrl", "fn">>}

\* key records of the update calls: an edit of ESC that keeps its placement, one that
\* carries another row and key type, and an edit of L00, an id the seeded base layer
\* does not hold and a layer added through the API does
KeyLabelled ==
    [SeedKey("ESC", 0, 0, "left", "function") EXCEPT
        !.label = "Q", !.color = "#ff0000", !.description = "quit"]
KeyMoved ==
    [SeedKey("ESC", 1, 0, "left", "thumb") EXCEPT !.label = "M"]
KeyOther == [SeedKey("L00", 0, 0, "left", "normal") EXCEPT !.label = "Z"]
KeyInputs == {KeyLabelled, KeyMoved, KeyOther}

LayoutInit ==
    /\ layout = DefaultTenkeylessLayout(0)
    /\ clock = 0
    /\ last = NoCall
    /\ CanonIdle /\ AppIdle /\ LoadIdle

\* the layout after a call; the clock advances when the call stamped modifiedAt
Commit(kl) ==
    /\ (kl.ModifiedAt # layout.ModifiedAt) => clock < MaxClock
    /\ layout' = kl
    /\ clock' = IF kl.ModifiedAt # layout.ModifiedAt THEN clock + 1 ELSE clock
    /\ UNCHANGED notLayout

KeysFor ==
    \E layer \in LayerInputs, mods \in LayoutModLists :
        LET r == GetKeysForActiveModifiers(layout, layer, mods, clock + 1) IN
        /\ Commit(r.kl)
        /\ last' = [op |-> "GetKeysForActiveModifiers", layer |-> layer,
                    combo |-> ComboKeyGet(mods), ok |-> Len(r.keys) > 0,
                    created |-> CombosOf(r.kl, layer) # CombosOf(layout, layer)]

UpdateCanonical ==
    \E layer \in LayerInputs, key \in KeyInputs :
        LET r == UpdateKey(layout, layer, key, clock + 1) IN
        /\ Commit(r.kl)
        /\ last' = [op |-> "UpdateKey", layer |-> layer, combo |-> "", ok |-> r.ok,
                    created |-> FALSE]

UpdateUnderModifiers ==
    \E layer \in LayerInputs, mods \in LayoutModLists, key \in KeyInputs :
        LET r == UpdateModifierKeyByActiveModifiers(layout, layer, mods, key, clock + 1) IN
        /\ Commit(r.kl)
        /\ last' = [op |-> "UpdateModifierKeyByActiveModifiers", layer |-> layer,
                    combo |-> ComboKeyUpd(mods), ok |-> r.ok,
                    created |-> CombosOf(r.kl, layer) # CombosOf(layout, layer)]

AddLayer ==
    \E name \in AddInputs :
        /\ Commit(AddCustomLayer(layout, name, NewLayerKeys(name), clock + 1))
        /\ last' = [op |-> "AddCustomLayer", layer |-> name, combo |-> "", ok |-> TRUE,
                    created |-> FALSE]

RemoveLayer ==
    \E name \in RemoveInputs :
        LET r == RemoveCustomLayer(layout, name, clock + 1) IN
        /\ Commit(r.kl)
        /\ last' = [op |-> "RemoveCustomLayer", layer |-> name, combo |-> "", ok |-> r.ok,
                    created |-> FALSE]

LayoutNext == KeysFor \/ UpdateCanonical \/ UpdateUnderModifiers \/ AddLayer \/ RemoveLayer

SpecLayout == LayoutInit /\ [][LayoutNext]_vars

IDsOf(keys) == {keys[i].id : i \in 1..Len(keys)}

\* C1: in every reachable layout, for every layer L, modifier list M (empty or not)
\* and key record K whose id is in L's canonical list, a successful updateKey(L, M, K)
\* followed at once by keysFor(L, M') with M' any permutation of M returns a list
\* whose entry with K's id equals K in every field.
C1_UpdateRoundTrip ==
    \A L \in LayerInputs, M \in LayoutModLists, K \in KeyInputs :
        LET u == UpdateModifierKeyByActiveModifiers(layout, L, M, K, clock + 1) IN
        (L \in DOMAIN layout.Layers /\ K.id \in IDsOf(layout.Layers[L]) /\ u.ok) =>
            \A M2 \in PermsOf(M) :
                LET g == GetKeysForActiveModifiers(u.kl, L, M2, clock + 2).keys IN
                /\ IndexOfID(g, K.id) # 0
                /\ g[IndexOfID(g, K.id)] = K

\* an update under <<shift, ctrl>> or <<ctrl, shift>> has stored the edited key and a
\* following keysFor has fetched that variant
C1_Witness ==
    /\ last.op = "GetKeysForActiveModifiers"
    /\ last.layer = "base"
    /\ last.combo = "ctrl+shift"
    /\ last.ok
    /\ layout.ModifierMaps["base"]["ctrl+shift"][1] = KeyLabelled
    /\ layout.ModifiedAt = 1

SamePlacement(a, b) ==
    /\ a.row = b.row
    /\ a.col = b.col
    /\ a.side = b.side
    /\ a.keyType = b.keyType

\* C2: every variant stored in a layer's Combination Map has exactly the key-ID set of
\* the layer's canonical list and, for each id, the canonical key's row, col, side and
\* keyType.
C2_StructuralParity ==
    \A L \in DOMAIN layout.ModifierMaps :
        \A c \in DOMAIN layout.ModifierMaps[L] :
            LET variant == layout.ModifierMaps[L][c]
                canonical == layout.Layers[L]
            IN  /\ IDsOf(variant) = IDsOf(canonical)
                /\ \A i \in 1..Len(variant) :
                       SamePlacement(variant[i],
                                     canonical[IndexOfID(canonical, variant[i].id)])

\* C3: for an existing layer L and a non-empty modifier list M whose combo is not in
\* L's Combination Map, two consecutive keysFor(L, M) return the same variant; the first
\* adds exactly one map entry (the returned variant, under M's combo string) and touches
\* nothing else, the second leaves the whole layout as it is.
C3_LazyIdempotent ==
    \A L \in LayerInputs, M \in LayoutModLists :
        (L \in DOMAIN layout.Layers /\ Len(M) > 0
            /\ ComboKeyGet(M) \notin CombosOf(layout, L)) =>
            LET r1 == GetKeysForActiveModifiers(layout, L, M, clock + 1)
                r2 == GetKeysForActiveModifiers(r1.kl, L, M, clock + 2)
            IN  /\ r2.keys = r1.keys
                /\ r2.kl = r1.kl
                /\ CombosOf(r1.kl, L) = CombosOf(layout, L) \cup {ComboKeyGet(M)}
                /\ Cardinality(CombosOf(r1.kl, L)) = Cardinality(CombosOf(layout, L)) + 1
                /\ r1.kl.ModifierMaps[L][ComboKeyGet(M)] = r1.keys
                /\ \A c \in CombosOf(layout, L) :
                       r1.kl.ModifierMaps[L][c] = layout.ModifierMaps[L][c]
                /\ r1.kl.Layers = layout.Layers
                /\ \A L2 \in DOMAIN layout.ModifierMaps \ {L} :
                       r1.kl.ModifierMaps[L2] = layout.ModifierMaps[L2]

\* keysFor(base, ctrl+fn) has materialised the blank variant and a second keysFor for
\* the same combo has found it stored
C3_Witness ==
    /\ last.op = "GetKeysForActiveModifiers"
    /\ last.layer = "base"
    /\ last.combo = "ctrl+fn"
    /\ last.ok
    /\ ~last.created
    /\ layout.ModifiedAt = 1
    /\ layout.Layers = DefaultTenkeylessLayout(0).Layers
    /\ layout.ModifierMaps["base"]["ctrl+fn"]
           = BlankKeys(layout.Layers["base"], <<"ctrl", "fn">>)


ProtectedLayers == {"base", "lower", "raise"}

\* names handed to removeLayer in the claims: protected, custom and unknown ones
RemoveNames == {"base", "lower", "raise", "nav", "ghost"}

\* C14: protected-layer invariant.  In every reachable layout removeLayer of base,
\* lower or raise, or of a name that is no layer of the layout, reports failure and
\* returns the layout as it was: layers, Combination Maps and modifiedAt.
C14_ProtectedLayers ==
    \A name \in RemoveNames :
        (name \in ProtectedLayers \/ name \notin DOMAIN layout.Layers) =>
            LET r == RemoveCustomLayer(layout, name, clock + 1) IN
            /\ ~r.ok
            /\ r.kl.Layers = layout.Layers
            /\ r.kl.ModifierMaps = layout.ModifierMaps
            /\ r.kl.ModifiedAt = layout.ModifiedAt
            /\ r.kl = layout

\* C14 witness: removeLayer("lower") has just failed on a layout that has the layer
\* lower with its Combination Map.
C14_Witness ==
    /\ last.op = "RemoveCustomLayer"
    /\ last.layer = "lower"
    /\ ~last.ok
    /\ "lower" \in DOMAIN layout.Layers
    /\ "lower" \in DOMAIN layout.ModifierMaps

\* C15: in every reachable layout removeLayer of an existing layer that is not base,
\* lower or raise succeeds; afterwards the layout has neither the canonical list nor
\* a Combination Map of that layer, and every other layer has the canonical list
\* and the Combination Map it had.
C15_RemoveCustom ==
    \A name \in RemoveNames :
        (name \in DOMAIN layout.Layers /\ name \notin ProtectedLayers) =>
            LET r == RemoveCustomLayer(layout, name, clock + 1) IN
            /\ r.ok
            /\ name \notin DOMAIN r.kl.Layers
            /\ name \notin DOMAIN r.kl.ModifierMaps
            /\ DOMAIN r.kl.Layers = DOMAIN layout.Layers \ {name}
            /\ DOMAIN r.kl.ModifierMaps = DOMAIN layout.ModifierMaps \ {name}
            /\ \A other \in DOMAIN r.kl.Layers : r.kl.Layers[other] = layout.Layers[other]
            /\ \A other \in DOMAIN r.kl.ModifierMaps :
                    r.kl.ModifierMaps[other] = layout.ModifierMaps[other]

\* C15 witness: removeLayer("nav") has just succeeded; the layer and its Combination
\* Map are gone, and the layer base is there with its Combination Map.
C15_Witness ==
    /\ last.op = "RemoveCustomLayer"
    /\ last.layer = "nav"
    /\ last.ok
    /\ "nav" \notin DOMAIN layout.Layers \cup DOMAIN layout.ModifierMaps
    /\ "base" \in DOMAIN layout.Layers
    /\ DOMAIN layout.ModifierMaps["base"] # {}

C21_ModifierUpdateNotFound ==
    \A L \in LayerInputs, M \in LayoutModLists, K \in KeyInputs :
        (L \in DOMAIN layout.Layers /\ Len(M) > 0 /\ K.id \notin IDsOf(layout.Layers[L])) =>
            LET r == UpdateModifierKeyByActiveModifiers(layout, L, M, K, clock + 1) IN
            /\ ~r.ok
            /\ r.kl.ModifierMaps[L] = layout.ModifierMaps[L]

\* the content a blank key has: nothing but the grey colour
BlankContent(key, id, mods) ==
    /\ key.id = id
    /\ key.label = ""
    /\ key.imageData = ""
    /\ key.description = ""
    /\ key.color = "#e0e0e0"
    /\ key.modifiers = mods

\* C25: in every reachable layout, for a layer L and a non-empty modifier list M whose
\* combo is not in L's Combination Map, the variant that keysFor or updateKey
\* materialises has, for every key of the canonical list and in the same order, the
\* same id with empty label, imageData and description, color "#e0e0e0" and modifiers
\* equal to the canonically ordered list, whatever content the canonical key has (on
\* the updateKey path: for every key but the one the call writes).
C25_BlankVariant ==
    \A L \in LayerInputs, M \in LayoutModLists, K \in KeyInputs :
        (L \in DOMAIN layout.Layers /\ Len(M) > 0
            /\ ComboKeyGet(M) \notin CombosOf(layout, L)) =>
            LET canonical == layout.Layers[L]
                ordered == BuiltInsOf(M) \o AscendingCustoms(M)
                g == GetKeysForActiveModifiers(layout, L, M, clock + 1).keys
                u == UpdateModifierKeyByActiveModifiers(layout, L, M, K, clock + 1).kl
                v == u.ModifierMaps[L][Join(ordered)]
            IN  /\ Len(g) = Len(canonical)
                /\ \A i \in 1..Len(canonical) : BlankContent(g[i], canonical[i].id, ordered)
                /\ Len(v) = Len(canonical)
                /\ \A i \in 1..Len(canonical) :
                       canonical[i].id # K.id =>
                           BlankContent(v[i], canonical[i].id, ordered)

\* C25 witness: the canonical ESC carries a label, a description and a colour, and
\* keysFor has just materialised ctrl+fn with a blank ESC.
C25_Witness ==
    /\ last.op = "GetKeysForActiveModifiers"
    /\ last.layer = "base"
    /\ last.combo = "ctrl+fn"
    /\ last.created
    /\ layout.Layers["base"][1] = KeyLabelled
    /\ BlankContent(layout.ModifierMaps["base"]["ctrl+fn"][1], "ESC", <<"ctrl", "fn">>)

\* C27: addLayer(name, keys) registers keys as the canonical list of the new layer
\* and generates no variants: directly after the call the new layer's Combination Map
\* is empty.
C27_AddLayerLazy ==
    \A name \in AddInputs :
        LET kl == AddCustomLayer(layout, name, NewLayerKeys(name), clock + 1) IN
        /\ kl.Layers[name] = NewLayerKeys(name)
        /\ CombosOf(kl, name) = {}

\* every non-empty list of distinct built-in names, in every order
SubsetLists == {M \in SeqsUpTo(BuiltIn, Cardinality(BuiltIn)) : Len(M) > 0 /\ Distinct(M)}

\* the layout with no combination stored for the layer
WithoutCombos(kl, layer) == [kl EXCEPT !.ModifierMaps[layer] = [c \in {} |-> <<>>]]

\* C33: eager and lazy generation agree.  For every canonical list of a reachable
\* layout and every non-empty set S of built-in names, given in any order, the eager
\* generator stores a variant under the combo string keysFor computes for S, that
\* variant equals field for field the one keysFor creates lazily for S over the same
\* canonical list, and the eager generator creates exactly the 15 non-empty subsets.
C33_EagerLazyAgree ==
    \A L \in DOMAIN layout.Layers :
        LET eager == generateAllModifierCombinations(layout.Layers[L], builtinModifiers)
        IN  /\ Cardinality(DOMAIN eager) = 15
            /\ DOMAIN eager = {ComboKeyGet(M) : M \in SubsetLists}
            /\ \A M \in SubsetLists :
                   eager[ComboKeyGet(M)] =
                       GetKeysForActiveModifiers(WithoutCombos(layout, L), L, M,
                                                 clock + 1).keys

\* addLayer("nav") has just run: the layer's Combination Map is what the eager
\* generator makes of its canonical list, and the stored variant for ctrl+shift is the
\* one keysFor would create for [shift, ctrl]
C33_Witness ==
    /\ last.op = "AddCustomLayer"
    /\ last.layer = "nav"
    /\ layout.ModifierMaps["nav"] =
           generateAllModifierCombinations(layout.Layers["nav"], builtinModifiers)
    /\ Cardinality(DOMAIN layout.ModifierMaps["nav"]) = 15
    /\ layout.ModifierMaps["nav"]["ctrl+shift"] =
           GetKeysForActiveModifiers(WithoutCombos(layout, "nav"), "nav",
                                     <<"shift", "ctrl">>, clock + 1).keys

(***************************************************************************)
(* SpecCombo: the layer base of the seeded layout under set-active-        *)
(* modifiers, keysFor and updateKey, with the modifier names a caller may  *)
(* hand in.  activeModifiers is the active profile's ActiveModifiers; the  *)
(* save that ends a successful call is the subject of SpecSave.            *)
(***************************************************************************)
\* modifier lists of the calls: none, the empty name, a custom name with the separator
\* in it (addCustomModifier accepts every trimmed, lower-cased, non-empty new name), and
\* a custom name next to a built-in one
ComboModLists == {<<>>, <<"">>, <<"b+a">>, <<"fn", "ctrl">>}

\* the texts handed to SetActiveModifiers: one that json.Unmarshal rejects, and the
\* JSON of a list of names
ModifierTexts ==
    {[kind |-> "torn"]} \cup {[kind |-> "list", names |-> l] : l \in ComboModLists}

\* an edit of ESC that drags the key to a position of its own
KeyPlaced ==
    [SeedKey("ESC", 0, 0, "left", "function") EXCEPT
        !.customX = 5, !.customY = 7, !.isCustomPosition = TRUE]

\* key records of the update calls: the dragged ESC and an id the layer does not hold
ComboKeyInputs == {KeyPlaced, KeyOther}

ComboInit ==
    /\ layout = DefaultTenkeylessLayout(0)
    /\ clock = 0
    /\ last = NoCall
    /\ CanonIdle /\ AppIdle /\ LoadIdle

\* the layout and the active modifiers after a call
ComboCommit(kl, mods) ==
    /\ (kl.ModifiedAt # layout.ModifiedAt) => clock < MaxClock
    /\ layout' = kl
    /\ clock' = IF kl.ModifiedAt # layout.ModifiedAt THEN clock + 1 ELSE clock
    /\ activeModifiers' = mods
    /\ UNCHANGED <<permuted, comboGet, comboUpd, appVars, loadVars>>

\* App.SetActiveModifiers: the decoded list replaces the active modifiers, whatever
\* names it holds
SetActiveModifiers ==
    \E modifiersJSON \in ModifierTexts :
        /\ ComboCommit(layout, IF modifiersJSON.kind = "list" THEN modifiersJSON.names
                               ELSE activeModifiers)
        /\ last' = [op |-> "SetActiveModifiers", layer |-> "", combo |-> "",
                    ok |-> modifiersJSON.kind = "list", created |-> FALSE]

\* App.GetCurrentLayer
ComboGetCurrentLayer ==
    LET r == GetKeysForActiveModifiers(layout, "base", activeModifiers, clock + 1) IN
    /\ ComboCommit(r.kl, activeModifiers)
    /\ last' = [op |-> "GetKeysForActiveModifiers", layer |-> "base",
                combo |-> ComboKeyGet(activeModifiers), ok |-> Len(r.keys) > 0,
                created |-> CombosOf(r.kl, "base") # CombosOf(layout, "base")]

\* App.UpdateKey
ComboUpdateKey ==
    \E key \in ComboKeyInputs :
        LET r == UpdateKey(layout, "base", key, clock + 1) IN
        /\ ComboCommit(r.kl, activeModifiers)
        /\ last' = [op |-> "UpdateKey", layer |-> "base", combo |-> "", ok |-> r.ok,
                    created |-> FALSE]

\* App.UpdateModifierKey
ComboUpdateModifierKey ==
    \E key \in ComboKeyInputs :
        LET r == UpdateModifierKeyByActiveModifiers(layout, "base", activeModifiers, key,
                                                    clock + 1)
        IN  /\ ComboCommit(r.kl, activeModifiers)
            /\ last' = [op |-> "UpdateModifierKeyByActiveModifiers", layer |-> "base",
                        combo |-> ComboKeyUpd(activeModifiers), ok |-> r.ok,
                        created |-> CombosOf(r.kl, "base") # CombosOf(layout, "base")]

ComboNext ==
    \/ SetActiveModifiers
    \/ ComboGetCurrentLayer
    \/ ComboUpdateKey
    \/ ComboUpdateModifierKey

SpecCombo == ComboInit /\ [][ComboNext]_vars

\* C22: the empty combo string is never stored: no layer's Combination Map has an
\* entry under the empty string.
C22_EmptyComboNeverStored ==
    \A L \in DOMAIN layout.ModifierMaps : "" \notin DOMAIN layout.ModifierMaps[L]

RECURSIVE JoinBytes(_)
\* the bytes of strings.Join(s, "+")
JoinBytes(s) ==
    IF Len(s) = 0 THEN <<>>
    ELSE IF Len(s) = 1 THEN Bytes(s[1])
    ELSE Bytes(s[1]) \o <<43>> \o JoinBytes(Tail(s))

RECURSIVE SplitBytes(_, _)
\* the pieces of the byte string bs between the separators "+", cur being the piece
\* under way; a string without separator is one piece, as with strings.Split
SplitBytes(bs, cur) ==
    IF bs = <<>> THEN <<cur>>
    ELSE IF Head(bs) = 43 THEN <<cur>> \o SplitBytes(Tail(bs), <<>>)
    ELSE SplitBytes(Tail(bs), Append(cur, Head(bs)))

\* the names whose bytes the model carries
NameTable == ModNames \cup {"", "a", "b", "b+a"}

NameOf(bs) == CHOOSE n \in NameTable : Bytes(n) = bs

\* the bytes of a stored combo string: those of the joined list it was made from
ComboBytes(c) ==
    LET made == {SortedModsGet(m) : m \in ComboModLists \cup LayoutModLists}
                    \cup {ActiveModsOf(i, builtinModifiers, 1) :
                              i \in 1..(2 ^ Len(builtinModifiers) - 1)}
    IN  JoinBytes(CHOOSE l \in made : Join(l) = c)

\* the modifier names a combo string decodes to
Decode(c) ==
    LET pieces == SplitBytes(ComboBytes(c), <<>>) IN
    [i \in 1..Len(pieces) |-> NameOf(pieces[i])]

\* C23: combo-key round trip.  Every key of a Combination Map, split at "+" into
\* modifier names and canonicalised again, yields that same string.
C23_ComboRoundTrip ==
    \A L \in DOMAIN layout.ModifierMaps :
        \A c \in DOMAIN layout.ModifierMaps[L] :
            /\ ComboKeyGet(Decode(c)) = c
            /\ ComboKeyUpd(Decode(c)) = c

\* C26: a freshly materialised variant has customX = 0, customY = 0 and
\* isCustomPosition = false for each key, whatever position the canonical key has,
\* on the keysFor path and on the updateKey path.
C26_BlankPosition ==
    \A M \in ComboModLists, K \in ComboKeyInputs :
        (Len(M) > 0 /\ ComboKeyGet(M) \notin CombosOf(layout, "base")) =>
            LET g == GetKeysForActiveModifiers(layout, "base", M, clock + 1).keys
                u == UpdateModifierKeyByActiveModifiers(layout, "base", M, K, clock + 1).kl
                v == u.ModifierMaps["base"][ComboKeyUpd(M)]
            IN  /\ \A i \in 1..Len(g) :
                       g[i].customX = 0 /\ g[i].customY = 0 /\ ~g[i].isCustomPosition
                /\ \A i \in 1..Len(v) :
                       v[i].id # K.id =>
                           v[i].customX = 0 /\ v[i].customY = 0 /\ ~v[i].isCustomPosition

(***************************************************************************)
(* The profile store behind the API (app.go, profile.go).  The API         *)
(* specifications follow, of every layer, the length of its key list and   *)
(* the labels of its first NumKeys keys; of a Combination Map its combo     *)
(* keys.                                                                   *)
(***************************************************************************)
\* len(baseKeys) of the two seeded layouts, and the bound SetKeyboardType tells them by
CorneLen == 42
TenkeylessLen == 84
TypeThreshold == 50

StoreLayer(len, keys) == [len |-> len, labels |-> [id \in IDsOf(keys) |-> ""]]

\* the combo keys of the Combination Map a seeded layer gets
StoreCombos == DOMAIN generateAllModifierCombinations(baseKeys, builtinModifiers)

\* a plausible slip: the layouts are listed Tenkeyless first
NewProfileTenkeylessFirst(name, now) ==
    [ID |-> "profile_" \o ToString(now),
     Name |-> name,
     Icon |-> "",
     BackgroundColor |-> "#6366f1",
     ModifiedAt |-> now,
     Layouts |-> <<[Name |-> "Tenkeyless",
                    Layers |-> [n \in {"base"} |-> StoreLayer(TenkeylessLen, tklBaseKeys)],
                    ModifierMaps |-> [n \in {"base"} |-> StoreCombos]],
                   [Name |-> "Corne",
                    Layers |-> [n \in {"base", "lower", "raise"} |->
                                   StoreLayer(CorneLen, baseKeys)],
                    ModifierMaps |-> [n \in {"base", "lower", "raise"} |-> StoreCombos]]>>,
     CurrentLayout |-> "Corne",
     CurrentLayer |-> "base",
     ActiveModifiers |-> <<>>]

NewProfile(name, now) ==
    [ID |-> "profile_" \o ToString(now),
     Name |-> name,
     Icon |-> "",
     BackgroundColor |-> "#6366f1",
     ModifiedAt |-> now,
     Layouts |-> <<[Name |-> "Corne",
                    Layers |-> [n \in {"base", "lower", "raise"} |->
                                   StoreLayer(CorneLen, baseKeys)],
                    ModifierMaps |-> [n \in {"base", "lower", "raise"} |-> StoreCombos]],
                   [Name |-> "Tenkeyless",
                    Layers |-> [n \in {"base"} |-> StoreLayer(TenkeylessLen, tklBaseKeys)],
                    ModifierMaps |-> [n \in {"base"} |-> StoreCombos]]>>,
     CurrentLayout |-> "Corne",
     CurrentLayer |-> "base",
     ActiveModifiers |-> <<>>]

\* the store NewApp builds when there is neither a profile file nor a legacy file
FreshStore(now) ==
    [Profiles |-> <<NewProfile("Default", now)>>,
     ActiveProfile |-> NewProfile("Default", now).ID,
     LastModified |-> now]

\* index of the first TRUE of a list of test results, 0 when there is none
FirstIndex(hits) ==
    IF \E i \in 1..Len(hits) : hits[i]
    THEN CHOOSE i \in 1..Len(hits) : hits[i] /\ \A j \in 1..(i - 1) : ~hits[j]
    ELSE 0

\* ProfileManager.GetActiveProfile: the index of the active profile (0 for nil) and the
\* store afterwards; a dangling activeProfile is reset to the first profile
GetActiveProfile(m) ==
    LET i == FirstIndex([k \in 1..Len(m.Profiles) |-> m.Profiles[k].ID = m.ActiveProfile])
    IN  IF i # 0 THEN [pm |-> m, idx |-> i]
        ELSE IF Len(m.Profiles) > 0
        THEN [pm |-> [m EXCEPT !.ActiveProfile = m.Profiles[1].ID], idx |-> 1]
        ELSE [pm |-> m, idx |-> 0]

\* Profile.GetCurrentLayout: the index of the layout the cursor names, else of the
\* first layout, 0 for nil
GetCurrentLayout(prof) ==
    LET i == FirstIndex([k \in 1..Len(prof.Layouts) |->
                            prof.Layouts[k].Name = prof.CurrentLayout])
    IN  IF i # 0 THEN i ELSE IF Len(prof.Layouts) > 0 THEN 1 ELSE 0

\* App.UpdateKey up to the call of SaveProfiles
StoreUpdateKey(m, id, label, now) ==
    LET a == GetActiveProfile(m) IN
    IF a.idx = 0 THEN [pm |-> a.pm, ok |-> FALSE]
    ELSE
        LET prof == a.pm.Profiles[a.idx]
            li == GetCurrentLayout(prof)
        IN  IF li = 0 THEN [pm |-> a.pm, ok |-> FALSE]
            ELSE IF /\ prof.CurrentLayer \in DOMAIN prof.Layouts[li].Layers
                    /\ id \in DOMAIN prof.Layouts[li].Layers[prof.CurrentLayer].labels
            THEN [pm |-> [a.pm EXCEPT
                            !.Profiles[a.idx].Layouts[li].Layers[prof.CurrentLayer].labels[id]
                                = label,
                            !.Profiles[a.idx].ModifiedAt = now],
                  ok |-> TRUE]
            ELSE [pm |-> a.pm, ok |-> FALSE]

\* App.SetCurrentLayer up to the call of SaveProfiles
StoreSetCurrentLayer(m, layerName, now) ==
    LET a == GetActiveProfile(m) IN
    IF a.idx = 0 THEN [pm |-> a.pm, ok |-> FALSE]
    ELSE
        LET prof == a.pm.Profiles[a.idx]
            li == GetCurrentLayout(prof)
        IN  IF li = 0 THEN [pm |-> a.pm, ok |-> FALSE]
            ELSE IF layerName \in DOMAIN prof.Layouts[li].Layers
            THEN [pm |-> [a.pm EXCEPT !.Profiles[a.idx].CurrentLayer = layerName,
                                      !.Profiles[a.idx].ModifiedAt = now],
                  ok |-> TRUE]
            ELSE [pm |-> a.pm, ok |-> FALSE]

\* len(layout.Layers["base"]); the length of a missing list is 0
BaseLen(lay) == IF "base" \in DOMAIN lay.Layers THEN lay.Layers["base"].len ELSE 0

\* App.SetKeyboardType up to and with activeProfile.SetCurrentLayout(targetLayoutName)
StoreSwitchLayout(m, keyboardType, now) ==
    IF keyboardType \notin {"corne", "tenkeyless"} THEN [pm |-> m, ok |-> FALSE]
    ELSE
        LET a == GetActiveProfile(m) IN
        IF a.idx = 0 THEN [pm |-> a.pm, ok |-> FALSE]
        ELSE
            LET prof == a.pm.Profiles[a.idx]
                Fits(lay) == \/ keyboardType = "corne" /\ BaseLen(lay) <= TypeThreshold
                             \/ keyboardType = "tenkeyless" /\ BaseLen(lay) > TypeThreshold
                ti == FirstIndex([k \in 1..Len(prof.Layouts) |-> Fits(prof.Layouts[k])])
            IN  IF ti = 0 \/ prof.Layouts[ti].Name = "" THEN [pm |-> a.pm, ok |-> FALSE]
                ELSE [pm |-> [a.pm EXCEPT
                                !.Profiles[a.idx].CurrentLayout = prof.Layouts[ti].Name,
                                !.Profiles[a.idx].ModifiedAt = now],
                      ok |-> TRUE]

\* App.SetKeyboardType after the switch: activeProfile.CurrentLayer = "base".  The
\* pointer activeProfile was taken before the switch; profiles are neither added nor
\* deleted in these specifications, so it is the profile at index idx.
StoreResetLayer(m, idx) == [m EXCEPT !.Profiles[idx].CurrentLayer = "base"]

\* App.GetCurrentLayer: the cursor the read resolves, the layers of the resolved
\* layout, and whether keys were found
StoreGetCurrentLayer(m) ==
    LET a == GetActiveProfile(m) IN
    IF a.idx = 0 THEN [pm |-> a.pm, ok |-> FALSE, seen |-> [layout |-> "", layer |-> ""]]
    ELSE
        LET prof == a.pm.Profiles[a.idx]
            li == GetCurrentLayout(prof)
        IN  IF li = 0
            THEN [pm |-> a.pm, ok |-> FALSE, seen |-> [layout |-> "", layer |-> ""]]
            ELSE [pm |-> a.pm,
                  ok |-> prof.CurrentLayer \in DOMAIN prof.Layouts[li].Layers,
                  seen |-> [layout |-> prof.Layouts[li].Name, layer |-> prof.CurrentLayer]]

(***************************************************************************)
(* Files.  A path of the config directory names a file object (inode); a   *)
(* descriptor keeps naming its object after a rename.                      *)
(***************************************************************************)
profilePath == "profiles.json"

\* a plausible slip: the serialisation is written straight over the profile file
tempPathIsProfilePath == profilePath

tempPath == profilePath \o ".tmp"

Paths == {profilePath, profilePath \o ".tmp"}

Free == [kind |-> "free"]
NoFile == [kind |-> "absent"]
Empty == [kind |-> "empty"]
Torn == [kind |-> "torn"]
NoData == [kind |-> "none"]

\* json.MarshalIndent(a.profileManager, "", "  "): the document that decodes to m
Marshal(m) == [kind |-> "doc", doc |-> m]

\* the content found under a path
FileAt(path) == IF dir[path] = 0 THEN NoFile ELSE inodes[dir[path]]

FreeInode(ino) ==
    CHOOSE i \in DOMAIN ino : ino[i] = Free /\ \A j \in DOMAIN ino : j < i => ino[j] # Free

\* file objects that no path and no descriptor names are gone
Collect(ino, d, pr) ==
    [i \in DOMAIN ino |->
        IF i \in {d[x] : x \in DOMAIN d} \cup {pr[q].fd : q \in DOMAIN pr}
        THEN ino[i] ELSE Free]

(***************************************************************************)
(* API calls, one goroutine each.  A call runs from pc idle (or returned)  *)
(* through its steps to pc returned.                                       *)
(***************************************************************************)
IdleProc ==
    [pc |-> "idle", op |-> "none", arg |-> "", idx |-> 0, data |-> NoData, fd |-> 0,
     before |-> NoFile, ok |-> TRUE, fault |-> "none",
     seen |-> [layout |-> "", layer |-> ""]]

Begin(op, arg) == [IdleProc EXCEPT !.op = op, !.arg = arg]

Ready(p) == procs[p].pc \in {"idle", "returned"} /\ tick < MaxCalls

\* callers that print the error of SaveProfiles and go on: what they report is success
SaveErrorIgnored(p) == procs[p].op \in {"NewApp", "AddCustomLayer", "RemoveCustomLayer"}

UpdateIds == {"L00", "L10", "ESC"}
LayerArgs == {"lower", "nav"}
TypeArgs == {"corne", "tenkeyless"}

\* the in-memory part of a call that ends in  return a.SaveProfiles()
Mutation(p, op, arg, r) ==
    /\ pm' = r.pm
    /\ procs' = [procs EXCEPT ![p] =
                    IF r.ok THEN [Begin(op, arg) EXCEPT !.pc = "save"]
                    ELSE [Begin(op, arg) EXCEPT !.pc = "returned", !.ok = FALSE]]
    /\ tick' = tick + 1
    /\ UNCHANGED <<dir, inodes, notApp>>

AppUpdateKey ==
    \E p \in DOMAIN procs, id \in UpdateIds :
        /\ Ready(p)
        /\ Mutation(p, "UpdateKey", id, StoreUpdateKey(pm, id, "Q", tick + 1))

AppSetCurrentLayer ==
    \E p \in DOMAIN procs, name \in LayerArgs :
        /\ Ready(p)
        /\ Mutation(p, "SetCurrentLayer", name, StoreSetCurrentLayer(pm, name, tick + 1))

\* SetKeyboardType, first half: the layout is switched
AppSetKeyboardType ==
    \E p \in DOMAIN procs, t \in TypeArgs :
        LET r == StoreSwitchLayout(pm, t, tick + 1) IN
        /\ Ready(p)
        /\ pm' = r.pm
        /\ procs' = [procs EXCEPT ![p] =
                        IF r.ok
                        THEN [Begin("SetKeyboardType", t) EXCEPT
                                 !.pc = "switched", !.idx = GetActiveProfile(pm).idx]
                        ELSE [Begin("SetKeyboardType", t) EXCEPT
                                 !.pc = "returned", !.ok = FALSE]]
        /\ tick' = tick + 1
        /\ UNCHANGED <<dir, inodes, notApp>>

\* SetKeyboardType, second half: the layer is reset to base
AppResetLayer ==
    \E p \in DOMAIN procs :
        /\ procs[p].pc = "switched"
        /\ pm' = StoreResetLayer(pm, procs[p].idx)
        /\ procs' = [procs EXCEPT ![p].pc = "save"]
        /\ UNCHANGED <<dir, inodes, tick, notApp>>

AppGetCurrentLayer ==
    \E p \in DOMAIN procs :
        LET r == StoreGetCurrentLayer(pm) IN
        /\ Ready(p)
        /\ pm' = r.pm
        /\ procs' = [procs EXCEPT ![p] =
                        [Begin("GetCurrentLayer", "") EXCEPT
                            !.pc = "returned", !.ok = r.ok, !.seen = r.seen]]
        /\ tick' = tick + 1
        /\ UNCHANGED <<dir, inodes, notApp>>

\* SaveProfiles: lastModified is stamped and the store serialised
SaveMarshal ==
    \E p \in DOMAIN procs :
        /\ procs[p].pc = "save"
        /\ pm' = [pm EXCEPT !.LastModified = tick]
        /\ procs' = [procs EXCEPT ![p].pc = "marshalled",
                                  ![p].data = Marshal(pm'),
                                  ![p].before = FileAt(profilePath)]
        /\ UNCHANGED <<dir, inodes, tick, notApp>>

\* os.WriteFile(tempPath, ...), first half: the file is created or truncated
SaveOpenTemp ==
    \E p \in DOMAIN procs :
        /\ procs[p].pc = "marshalled"
        /\ LET i == IF dir[tempPath] = 0 THEN FreeInode(inodes) ELSE dir[tempPath] IN
           /\ inodes' = [inodes EXCEPT ![i] = Empty]
           /\ dir' = [dir EXCEPT ![tempPath] = i]
           /\ procs' = [procs EXCEPT ![p].pc = "opened", ![p].fd = i]
        /\ UNCHANGED <<pm, tick, notApp>>

\* os.WriteFile, second half: the bytes are written from offset 0 and the file closed.
\* Over bytes another writer has put there since the truncation the outcome is the
\* new document when it is at least as long, else a mix of the two.
SaveWriteTemp ==
    \E p \in DOMAIN procs :
        /\ procs[p].pc = "opened"
        /\ \E content \in {procs[p].data, Torn} :
            /\ content = Torn => inodes[procs[p].fd] \notin {Empty, procs[p].data}
            /\ LET pr == [procs EXCEPT ![p].pc = "written", ![p].fd = 0] IN
               /\ procs' = pr
               /\ inodes' = Collect([inodes EXCEPT ![procs[p].fd] = content], dir, pr)
        /\ UNCHANGED <<pm, dir, tick, notApp>>

\* os.Rename(tempPath, profilePath); it fails when the temporary file is gone, and
\* os.Remove(tempPath) then finds nothing to remove
SaveRename ==
    \E p \in DOMAIN procs :
        /\ procs[p].pc = "written"
        /\ IF dir[tempPath] = 0
           THEN /\ procs' = [procs EXCEPT ![p].pc = "returned", ![p].ok = SaveErrorIgnored(p),
                                          ![p].fault = "enoent"]
                /\ UNCHANGED <<dir, inodes>>
           ELSE LET d == IF tempPath = profilePath THEN dir
                         ELSE [dir EXCEPT ![profilePath] = dir[tempPath], ![tempPath] = 0]
                IN  /\ dir' = d
                    /\ inodes' = Collect(inodes, d, procs)
                    /\ procs' = [procs EXCEPT ![p].pc = "returned"]
        /\ UNCHANGED <<pm, tick, notApp>>

\* injected fault: os.WriteFile cannot create the temporary file
SaveOpenTempFails ==
    \E p \in DOMAIN procs :
        /\ procs[p].pc = "marshalled"
        /\ procs' = [procs EXCEPT ![p].pc = "returned", ![p].ok = SaveErrorIgnored(p),
                                  ![p].fault = "write"]
        /\ UNCHANGED <<pm, dir, inodes, tick, notApp>>

\* injected fault: os.WriteFile fails while writing; the temporary file stays, cut short
SaveWriteTempFails ==
    \E p \in DOMAIN procs :
        /\ procs[p].pc = "opened"
        /\ LET pr == [procs EXCEPT ![p].pc = "returned", ![p].ok = SaveErrorIgnored(p),
                                   ![p].fault = "write", ![p].fd = 0] IN
           /\ procs' = pr
           /\ inodes' = Collect([inodes EXCEPT ![procs[p].fd] = Torn], dir, pr)
        /\ UNCHANGED <<pm, dir, tick, notApp>>

\* a plausible slip: after a failed rename the store is put back to what the profile
\* file holds
SaveRenameFailsRollsBack ==
    \E p \in DOMAIN procs :
        /\ procs[p].pc = "written"
        /\ dir[tempPath] # 0
        /\ LET d == [dir EXCEPT ![tempPath] = 0] IN
           /\ dir' = d
           /\ inodes' = Collect(inodes, d, procs)
        /\ pm' = IF procs[p].before.kind = "doc" THEN procs[p].before.doc ELSE pm
        /\ procs' = [procs EXCEPT ![p].pc = "returned", ![p].ok = SaveErrorIgnored(p),
                                  ![p].fault = "rename"]
        /\ UNCHANGED <<tick, notApp>>

\* injected fault: os.Rename fails; os.Remove(tempPath) cleans up
SaveRenameFails ==
    \E p \in DOMAIN procs :
        /\ procs[p].pc = "written"
        /\ dir[tempPath] # 0
        /\ LET d == [dir EXCEPT ![tempPath] = 0] IN
           /\ dir' = d
           /\ inodes' = Collect(inodes, d, procs)
        /\ procs' = [procs EXCEPT ![p].pc = "returned", ![p].ok = SaveErrorIgnored(p),
                                  ![p].fault = "rename"]
        /\ UNCHANGED <<pm, tick, notApp>>

\* the state NewApp leaves: a fresh store, saved
AppInit(n) ==
    /\ pm = FreshStore(0)
    /\ procs = [p \in 1..n |-> IdleProc]
    /\ inodes = [i \in 1..(n + 2) |-> IF i = 1 THEN Marshal(FreshStore(0)) ELSE Free]
    /\ dir = [x \in Paths |-> IF x = profilePath THEN 1 ELSE 0]
    /\ tick = 0
    /\ CanonIdle /\ LayoutIdle /\ LoadIdle

ApiStep ==
    \/ AppUpdateKey
    \/ AppSetCurrentLayer
    \/ AppSetKeyboardType
    \/ AppResetLayer
    \/ AppGetCurrentLayer
    \/ SaveMarshal
    \/ SaveOpenTemp
    \/ SaveWriteTemp
    \/ SaveRename

SaveNext == ApiStep \/ SaveOpenTempFails \/ SaveWriteTempFails \/ SaveRenameFails

\* one call at a time, disk faults injected
SpecSave == AppInit(1) /\ [][SaveNext]_vars

\* two goroutines, no injected fault
SpecConc == AppInit(2) /\ [][ApiStep]_vars


(***************************************************************************)
(* Claims about SaveProfiles and about concurrently dispatched calls       *)
(***************************************************************************)
Mutators == {"UpdateKey", "SetCurrentLayer", "SetKeyboardType"}

Quiet(p) == procs[p].pc \in {"idle", "returned"}

\* C5: atomic save.  While a save is between serialising and returning, the profile
\* file is what it was when the save began; when the save has returned, the profile
\* file is the complete previous or the complete new serialisation; and when the
\* rename failed after the temporary file was written, the profile file is the
\* previous serialisation, the temporary file is removed and the call reports an error.
C5_AtomicSave ==
    \A p \in DOMAIN procs :
        LET q == procs[p] IN
        /\ FileAt(profilePath).kind = "doc"
        /\ q.pc \in {"marshalled", "opened", "written"} => FileAt(profilePath) = q.before
        /\ (q.pc = "returned" /\ q.data # NoData) => FileAt(profilePath) \in {q.before, q.data}
        /\ (q.pc = "returned" /\ q.fault = "rename") =>
                /\ FileAt(profilePath) = q.before
                /\ dir[tempPath] = 0
                /\ ~q.ok

\* C5 witness: a rename has failed after the temporary file was written, the file on
\* disk is the serialisation an earlier save of this run persisted, and the store in
\* memory has moved on from it.
C5_Witness ==
    \E p \in DOMAIN procs :
        /\ procs[p].pc = "returned"
        /\ procs[p].fault = "rename"
        /\ procs[p].before.kind = "doc"
        /\ procs[p].before.doc.LastModified > 0
        /\ FileAt(profilePath) = procs[p].before
        /\ FileAt(profilePath) # Marshal(pm)
        /\ dir[tempPath] = 0

\* a mutating call is between the start of its in-memory mutation and the end of its
\* disk write
InMutateSave(p) ==
    /\ procs[p].op \in Mutators
    /\ procs[p].pc \in {"switched", "save", "marshalled", "opened", "written"}

\* C6: mutual exclusion of mutations.  At any instant at most one mutating call is
\* between the start of its in-memory mutation and the completion of its disk write.
C6_MutualExclusion == Cardinality({p \in DOMAIN procs : InMutateSave(p)}) <= 1

\* a store without its timestamps: the profiles, their layouts, labels and cursors
StoreContent(m) ==
    [m EXCEPT !.LastModified = 0,
              !.Profiles = [i \in DOMAIN @ |-> [@[i] EXCEPT !.ModifiedAt = 0]]]

\* C7: no lost update.  When every dispatched call has returned and all returned
\* success, the profile file holds the effects of all of them: apart from timestamps
\* it is the serialisation of the store in memory, where every call has had its effect.
C7_NoLostUpdate ==
    (\A p \in DOMAIN procs : Quiet(p) /\ procs[p].ok) =>
        /\ FileAt(profilePath).kind = "doc"
        /\ StoreContent(FileAt(profilePath).doc) = StoreContent(pm)

\* C8: a read never observes a half-applied mutation.  The cursor GetCurrentLayer
\* resolved names a layer of the layout it resolved, so the read found keys.
C8_ReadConsistent ==
    \A p \in DOMAIN procs :
        (procs[p].op = "GetCurrentLayer" /\ procs[p].pc = "returned") => procs[p].ok

\* C39: concurrent saves do not disturb each other.  With no injected fault every
\* SaveProfiles that has returned reports success, and when every call has returned
\* after at least one save the profile file is a complete serialisation of the store
\* in memory, apart from timestamps.
C39_ConcurrentSaves ==
    /\ \A p \in DOMAIN procs :
           (procs[p].pc = "returned" /\ procs[p].data # NoData) =>
               (procs[p].ok /\ procs[p].fault = "none")
    /\ ((\A p \in DOMAIN procs : Quiet(p)) /\
        (\E p \in DOMAIN procs : procs[p].data # NoData)) =>
           /\ FileAt(profilePath).kind = "doc"
           /\ StoreContent(FileAt(profilePath).doc) = StoreContent(pm)

\* the label of key L00 on the Corne base layer of the first profile
LabelL00(m) == m.Profiles[1].Layouts[1].Layers["base"].labels["L00"]

\* C29: a persistence failure aborts only the triggering operation.  When the write
\* of the temporary file or the rename has failed, the store in memory is the mutated
\* store the save serialised (nothing is rolled back) and the profile file is what it
\* was before the save; and when a save has succeeded, the profile file is the
\* serialisation of the store in memory, whatever saves failed before it.
C29_FailureKeepsMemory ==
    \A p \in DOMAIN procs :
        LET q == procs[p] IN
        /\ (q.pc = "returned" /\ q.fault \in {"write", "rename"}) =>
                /\ q.data = Marshal(pm)
                /\ FileAt(profilePath) = q.before
        /\ (q.pc = "returned" /\ q.fault = "none" /\ q.data # NoData) =>
                FileAt(profilePath) = Marshal(pm)

\* C29 witness: SetCurrentLayer has saved with success; when its save began the
\* profile file did not hold the label an earlier UpdateKey had set in memory, so that
\* call's save had failed; now the file holds the label and the layer.
C29_Witness ==
    \E p \in DOMAIN procs :
        /\ procs[p].op = "SetCurrentLayer"
        /\ procs[p].pc = "returned"
        /\ procs[p].fault = "none"
        /\ procs[p].before.kind = "doc"
        /\ LabelL00(procs[p].before.doc) = ""
        /\ LabelL00(pm) = "Q"
        /\ pm.Profiles[1].CurrentLayer = "lower"
        /\ FileAt(profilePath) = Marshal(pm)

(***************************************************************************)
(* LoadProfiles and the repair pass validateProfiles                       *)
(***************************************************************************)
\* profile_<time.Now().UnixNano()>, read while the i-th profile is repaired
GeneratedID(i) == "profile_" \o ToString(i)

\* a plausible slip: the name is defaulted without the test for an empty name
RepairProfileRenames(prof, i) ==
    [prof EXCEPT !.ID = IF @ = "" THEN GeneratedID(i) ELSE @,
                 !.Name = "Unnamed Profile",
                 !.BackgroundColor = IF @ = "" THEN "#6366f1" ELSE @]

\* the repair of one profile that has layouts
RepairProfile(prof, i) ==
    LET NamedAt(name) == FirstIndex([k \in 1..Len(prof.Layouts) |->
                                        prof.Layouts[k].Name = name])
        currentLayout == IF NamedAt(prof.CurrentLayout) # 0 THEN prof.CurrentLayout
                         ELSE prof.Layouts[1].Name
        li == NamedAt(currentLayout)
        currentLayer == IF prof.CurrentLayer \in DOMAIN prof.Layouts[li].Layers
                        THEN prof.CurrentLayer ELSE "base"
    IN  [prof EXCEPT !.CurrentLayout = currentLayout,
                     !.CurrentLayer = currentLayer,
                     !.ID = IF @ = "" THEN GeneratedID(i) ELSE @,
                     !.Name = IF @ = "" THEN "Unnamed Profile" ELSE @,
                     !.BackgroundColor = IF @ = "" THEN "#6366f1" ELSE @]

validateProfiles(m) ==
    IF Len(m.Profiles) = 0 THEN [ok |-> FALSE, pm |-> m]
    ELSE
        LET found == FirstIndex([k \in 1..Len(m.Profiles) |->
                                    m.Profiles[k].ID = m.ActiveProfile])
            active == IF found # 0 THEN m.ActiveProfile
                      ELSE m.Profiles[1].ID
        IN  IF \E i \in 1..Len(m.Profiles) : Len(m.Profiles[i].Layouts) = 0
            THEN [ok |-> FALSE, pm |-> m]
            ELSE [ok |-> TRUE,
                  pm |-> [m EXCEPT !.ActiveProfile = active,
                                   !.Profiles = [i \in 1..Len(m.Profiles) |->
                                                    RepairProfile(m.Profiles[i], i)]]]

\* what LoadProfiles leaves in a.profileManager, and the profile file afterwards
LoadProfiles(file) ==
    IF file.kind = "absent" THEN [loaded |-> [state |-> "failed", why |-> "absent"],
                                  file |-> file]
    ELSE IF file.kind # "doc" THEN [loaded |-> [state |-> "failed", why |-> "corrupted"],
                                    file |-> NoFile]
    ELSE IF validateProfiles(file.doc).ok
    THEN [loaded |-> [state |-> "loaded", pm |-> validateProfiles(file.doc).pm],
          file |-> file]
    ELSE [loaded |-> [state |-> "failed", why |-> "invalid"], file |-> file]

\* stored profiles: the id, name and colour a file may hold or miss
StoredFields ==
    {[ID |-> "p1", Name |-> "Work", BackgroundColor |-> "#112233"],
     [ID |-> "p2", Name |-> "", BackgroundColor |-> ""],
     [ID |-> "", Name |-> "Home", BackgroundColor |-> ""]}

\* the seeded pair of layouts, an imported layout without a base layer, no layout
StoredLayouts ==
    {NewProfile("", 0).Layouts,
     <<[Name |-> "Imported", Layers |-> [n \in {"nav"} |-> StoreLayer(CorneLen, baseKeys)],
        ModifierMaps |-> [n \in {"nav"} |-> {"ctrl", "ctrl+shift"}]]>>,
     <<>>}

StoredCursors ==
    {[CurrentLayout |-> "Corne", CurrentLayer |-> "raise"],
     [CurrentLayout |-> "Tenkeyless", CurrentLayer |-> "lower"],
     [CurrentLayout |-> "Gone", CurrentLayer |-> "ghost"]}

StoredProfiles ==
    {[ID |-> f.ID, Name |-> f.Name, Icon |-> "", BackgroundColor |-> f.BackgroundColor,
      ModifiedAt |-> 0,
      Layouts |-> l, CurrentLayout |-> c.CurrentLayout, CurrentLayer |-> c.CurrentLayer,
      ActiveModifiers |-> <<>>] : f \in StoredFields, l \in StoredLayouts, c \in StoredCursors}

StoredStores ==
    {[Profiles |-> ps, ActiveProfile |-> a, LastModified |-> 0] :
        ps \in SeqsUpTo(StoredProfiles, MaxProfiles), a \in {"", "p1", "zz"}}

LoadInit ==
    /\ stored \in {NoFile, Torn} \cup {Marshal(m) : m \in StoredStores}
    /\ loaded = NotLoaded
    /\ CanonIdle /\ LayoutIdle /\ AppIdle

Load ==
    /\ loaded = NotLoaded
    /\ loaded' = LoadProfiles(stored).loaded
    /\ stored' = LoadProfiles(stored).file
    /\ UNCHANGED notLoad

LoadNext == Load

SpecLoad == LoadInit /\ [][LoadNext]_vars

\* C9: after LoadProfiles succeeds, activeProfile is the id of some profile of the
\* loaded store.
C9_ActiveProfileResolves ==
    loaded.state = "loaded" =>
        \E i \in 1..Len(loaded.pm.Profiles) :
            loaded.pm.Profiles[i].ID = loaded.pm.ActiveProfile

\* C10: after LoadProfiles succeeds, in every profile of the loaded store
\* currentLayout names one of the profile's layouts and currentLayer is a layer of
\* that layout.
C10_CursorResolves ==
    loaded.state = "loaded" =>
        \A i \in 1..Len(loaded.pm.Profiles) :
            LET prof == loaded.pm.Profiles[i] IN
            \E j \in 1..Len(prof.Layouts) :
                /\ prof.Layouts[j].Name = prof.CurrentLayout
                /\ prof.CurrentLayer \in DOMAIN prof.Layouts[j].Layers

\* the fields of a profile the repair pass never writes
ProfileKept(prof) ==
    [Layouts |-> prof.Layouts, ModifiedAt |-> prof.ModifiedAt, Icon |-> prof.Icon,
     ActiveModifiers |-> prof.ActiveModifiers]

\* C11: the repair pass loses no data.  After a successful load the store has the
\* profiles of the file, as many and in the same order; every layout with its layers
\* and Combination Maps, and every field apart from the cursor and id/name/colour, is
\* what the file held; and id, name and colour differ from the file only where the
\* file had them empty.
C11_RepairLosesNothing ==
    loaded.state = "loaded" =>
        /\ stored.kind = "doc"
        /\ Len(loaded.pm.Profiles) = Len(stored.doc.Profiles)
        /\ loaded.pm.LastModified = stored.doc.LastModified
        /\ \A i \in 1..Len(stored.doc.Profiles) :
            LET was == stored.doc.Profiles[i]
                now == loaded.pm.Profiles[i]
            IN  /\ ProfileKept(now) = ProfileKept(was)
                /\ was.ID # "" => now.ID = was.ID
                /\ was.Name # "" => now.Name = was.Name
                /\ was.BackgroundColor # "" => now.BackgroundColor = was.BackgroundColor

\* C11 witness: a file with two profiles was loaded; the pass repaired the pointer,
\* a cursor and an empty name, and the profiles carry layouts with Combination Maps.
C11_Witness ==
    /\ loaded.state = "loaded"
    /\ Len(loaded.pm.Profiles) = 2
    /\ loaded.pm.ActiveProfile # stored.doc.ActiveProfile
    /\ \E i \in 1..2 :
        /\ stored.doc.Profiles[i].Name = ""
        /\ loaded.pm.Profiles[i].Name = "Unnamed Profile"
        /\ loaded.pm.Profiles[i].CurrentLayer # stored.doc.Profiles[i].CurrentLayer
    /\ \E i \in 1..2 :
        /\ stored.doc.Profiles[i].Name = "Work"
        /\ Len(loaded.pm.Profiles[i].Layouts) = 2
        /\ loaded.pm.Profiles[i].Layouts[1].ModifierMaps["lower"] = StoreCombos

(***************************************************************************)
(* Profile management: create, select, delete, change the appearance       *)
(***************************************************************************)
\* the characters of the colour and icon strings of the calls
Chars(str) ==
    CASE str = "" -> <<>>
      [] str = "#6366f1" -> <<"#", "6", "3", "6", "6", "f", "1">>
      [] str = "#112233" -> <<"#", "1", "1", "2", "2", "3", "3">>
      [] str = "#1a2B3c" -> <<"#", "1", "a", "2", "B", "3", "c">>
      [] str = "#12345" -> <<"#", "1", "2", "3", "4", "5">>
      [] str = "#12345G" -> <<"#", "1", "2", "3", "4", "5", "G">>
      [] str = "icon.png" -> <<"i", "c", "o", "n", ".", "p", "n", "g">>
      [] str = "data:image/x" ->
            <<"d", "a", "t", "a", ":", "i", "m", "a", "g", "e", "/", "x">>

\* c >= '0' && c <= '9' || c >= 'a' && c <= 'f' || c >= 'A' && c <= 'F'
HexDigits ==
    {"0", "1", "2", "3", "4", "5", "6", "7", "8", "9",
     "a", "b", "c", "d", "e", "f", "A", "B", "C", "D", "E", "F"}

isValidHexColor(color) ==
    LET c == Chars(color) IN
    IF Len(c) # 7 \/ c[1] # "#" THEN FALSE
    ELSE \A i \in 2..7 : c[i] \in HexDigits

isValidBase64Image(imageData) ==
    LET c == Chars(imageData) IN
    /\ Len(c) > 11
    /\ SubSeq(c, 1, 11) = <<"d", "a", "t", "a", ":", "i", "m", "a", "g", "e", "/">>

\* App.CreateNewProfile up to the call of SaveProfiles
StoreCreateNewProfile(m, name, now) ==
    IF name = "" THEN [pm |-> m, ok |-> FALSE]
    ELSE IF \E i \in 1..Len(m.Profiles) : m.Profiles[i].Name = name
    THEN [pm |-> m, ok |-> FALSE]
    ELSE [pm |-> [m EXCEPT !.Profiles = Append(@, NewProfile(name, now)),
                           !.LastModified = now],
          ok |-> TRUE]

\* App.SetActiveProfile up to the call of SaveProfiles
StoreSetActiveProfile(m, profileID, now) ==
    IF \E i \in 1..Len(m.Profiles) : m.Profiles[i].ID = profileID
    THEN [pm |-> [m EXCEPT !.ActiveProfile = profileID, !.LastModified = now], ok |-> TRUE]
    ELSE [pm |-> m, ok |-> FALSE]

\* Profiles[:i] followed by Profiles[i+1:]
WithoutIndex(list, i) == SubSeq(list, 1, i - 1) \o SubSeq(list, i + 1, Len(list))

\* a plausible slip: the active profile is deleted and activeProfile keeps its id
StoreDeleteProfileKeepsActive(m, profileID, now) ==
    LET i == FirstIndex([k \in 1..Len(m.Profiles) |-> m.Profiles[k].ID = profileID]) IN
    IF Len(m.Profiles) <= 1 \/ i = 0 THEN [pm |-> m, ok |-> FALSE]
    ELSE [pm |-> [m EXCEPT !.Profiles = WithoutIndex(@, i), !.LastModified = now],
          ok |-> TRUE]

\* App.DeleteProfile up to the call of SaveProfiles
StoreDeleteProfile(m, profileID, now) ==
    LET i == FirstIndex([k \in 1..Len(m.Profiles) |-> m.Profiles[k].ID = profileID]) IN
    IF Len(m.Profiles) <= 1 \/ i = 0 THEN [pm |-> m, ok |-> FALSE]
    ELSE [pm |-> [m EXCEPT
                    !.ActiveProfile = IF @ # profileID THEN @
                                      ELSE IF i > 1 THEN m.Profiles[i - 1].ID
                                      ELSE m.Profiles[i + 1].ID,
                    !.Profiles = WithoutIndex(@, i),
                    !.LastModified = now],
          ok |-> TRUE]

\* App.UpdateProfileAppearance up to the call of SaveProfiles
StoreUpdateProfileAppearance(m, profileID, name, backgroundColor, icon, now) ==
    LET i == FirstIndex([k \in 1..Len(m.Profiles) |-> m.Profiles[k].ID = profileID]) IN
    IF i = 0 THEN [pm |-> m, ok |-> FALSE]
    ELSE IF name = "" THEN [pm |-> m, ok |-> FALSE]
    ELSE IF backgroundColor # "" /\ ~isValidHexColor(backgroundColor)
    THEN [pm |-> m, ok |-> FALSE]
    ELSE IF icon # "" /\ ~isValidBase64Image(icon) THEN [pm |-> m, ok |-> FALSE]
    ELSE [pm |-> [m EXCEPT !.Profiles[i].Name = name,
                           !.Profiles[i].BackgroundColor = backgroundColor,
                           !.Profiles[i].Icon = icon,
                           !.Profiles[i].ModifiedAt = now],
          ok |-> TRUE]

NameArgs == {"Default", "Work", ""}
ColorArgs == {"#1a2B3c", "#12345G", "#12345", ""}
IconArgs == {"", "icon.png", "data:image/x"}

\* profile ids of the calls: the ids in the store and one that is not
IdArgs == {pm.Profiles[i].ID : i \in 1..Len(pm.Profiles)} \cup {"zz"}

AppCreateNewProfile ==
    \E p \in DOMAIN procs, name \in NameArgs :
        /\ Ready(p)
        /\ Mutation(p, "CreateNewProfile", name, StoreCreateNewProfile(pm, name, tick + 1))

AppSetActiveProfile ==
    \E p \in DOMAIN procs, id \in IdArgs :
        /\ Ready(p)
        /\ Mutation(p, "SetActiveProfile", id, StoreSetActiveProfile(pm, id, tick + 1))

AppDeleteProfile ==
    \E p \in DOMAIN procs, id \in IdArgs :
        /\ Ready(p)
        /\ Mutation(p, "DeleteProfile", id, StoreDeleteProfile(pm, id, tick + 1))

AppUpdateProfileAppearance ==
    \E p \in DOMAIN procs, id \in IdArgs, name \in NameArgs, color \in ColorArgs,
       icon \in IconArgs :
        /\ Ready(p)
        /\ Mutation(p, "UpdateProfileAppearance", id,
                    StoreUpdateProfileAppearance(pm, id, name, color, icon, tick + 1))

ProfilesNext ==
    \/ AppCreateNewProfile
    \/ AppSetActiveProfile
    \/ AppDeleteProfile
    \/ AppUpdateProfileAppearance
    \/ SaveMarshal
    \/ SaveOpenTemp
    \/ SaveWriteTemp
    \/ SaveRename

\* one call at a time on the profiles of the store, no injected fault
SpecProfiles == AppInit(1) /\ [][ProfilesNext]_vars

\* C16: after any sequence of create-profile, set-active-profile and delete-profile
\* calls the store holds at least one profile and activeProfile is the id of a
\* profile of the store.
C16_ActiveProfileExists ==
    /\ Len(pm.Profiles) >= 1
    /\ \E i \in 1..Len(pm.Profiles) : pm.Profiles[i].ID = pm.ActiveProfile

\* C16 witness: after one create-profile the active profile, the seeded one, has been
\* deleted; activeProfile has moved to the created profile, the one that remains.
C16_Witness ==
    /\ tick = 2
    /\ procs[1].op = "DeleteProfile"
    /\ procs[1].arg = "profile_0"
    /\ procs[1].pc = "returned" /\ procs[1].ok
    /\ Len(pm.Profiles) = 1
    /\ pm.ActiveProfile = "profile_1"
    /\ pm.Profiles[1].ID = "profile_1"

\* the layers of the two seeded layouts of keyboard.go
CorneLayerNames == DOMAIN DefaultCorneLayout(0).Layers
TenkeylessLayerNames == DOMAIN DefaultTenkeylessLayout(0).Layers

\* a profile as NewProfile seeds it: the layouts Corne and Tenkeyless in that order,
\* with the layers of the seeded layouts of keyboard.go, and the cursor on Corne/base
\* with no modifier
Seeded(prof) ==
    /\ Len(prof.Layouts) = 2
    /\ prof.Layouts[1].Name = "Corne"
    /\ prof.Layouts[2].Name = "Tenkeyless"
    /\ DOMAIN prof.Layouts[1].Layers = CorneLayerNames
    /\ DOMAIN prof.Layouts[2].Layers = TenkeylessLayerNames
    /\ \A j \in 1..2 : "base" \in DOMAIN prof.Layouts[j].Layers
    /\ prof.CurrentLayout = "Corne"
    /\ prof.CurrentLayer = "base"
    /\ prof.ActiveModifiers = <<>>
    /\ prof.Layouts[GetCurrentLayout(prof)].Name = prof.CurrentLayout
    /\ prof.CurrentLayer \in DOMAIN prof.Layouts[GetCurrentLayout(prof)].Layers

\* C32: a profile created by create-profile or by fresh-start seeding has exactly the
\* layouts Corne and Tenkeyless in that order, the cursor currentLayout = Corne,
\* currentLayer = base and no active modifier; both layouts hold a base layer, so the
\* cursor resolves.  Checked on the fresh store, on the profile every accepted
\* create-profile appends, and on every profile of the store (no call of this
\* specification moves a cursor).
C32_SeededProfile ==
    /\ Len(FreshStore(tick).Profiles) = 1
    /\ Seeded(FreshStore(tick).Profiles[1])
    /\ \A name \in NameArgs :
           LET r == StoreCreateNewProfile(pm, name, tick + 1) IN
           r.ok => /\ Len(r.pm.Profiles) = Len(pm.Profiles) + 1
                   /\ r.pm.Profiles[Len(r.pm.Profiles)].Name = name
                   /\ Seeded(r.pm.Profiles[Len(r.pm.Profiles)])
    /\ \A k \in 1..Len(pm.Profiles) : Seeded(pm.Profiles[k])

\* C32 witness: create-profile has just returned success; the store holds the profile
\* seeded at start-up and the created one, both as NewProfile seeds them.
C32_Witness ==
    /\ procs[1].op = "CreateNewProfile"
    /\ procs[1].pc = "returned" /\ procs[1].ok
    /\ Len(pm.Profiles) = 2
    /\ pm.Profiles[2].Name = procs[1].arg
    /\ Seeded(pm.Profiles[1])
    /\ Seeded(pm.Profiles[2])

\* C17: profile names stay pairwise distinct.
C17_NamesDistinct ==
    \A i, j \in 1..Len(pm.Profiles) :
        pm.Profiles[i].Name = pm.Profiles[j].Name => i = j

\* C19: every profile's backgroundColor is '#' followed by six hexadecimal digits.
C19_ColorsValid ==
    \A i \in 1..Len(pm.Profiles) : isValidHexColor(pm.Profiles[i].BackgroundColor)

(***************************************************************************)
(* Layers and layouts through the API: add and remove a custom layer,      *)
(* import a layout                                                         *)
(***************************************************************************)
\* App.AddCustomLayer up to the call of SaveProfiles; the new layer gets the keys of
\* the default Corne base layer and every built-in combination
StoreAddCustomLayer(m, layerName, now) ==
    IF layerName = "" THEN [pm |-> m, ok |-> FALSE]
    ELSE
        LET a == GetActiveProfile(m) IN
        IF a.idx = 0 THEN [pm |-> a.pm, ok |-> FALSE]
        ELSE
            LET prof == a.pm.Profiles[a.idx]
                li == GetCurrentLayout(prof)
            IN  IF li = 0 THEN [pm |-> a.pm, ok |-> FALSE]
                ELSE IF layerName \in DOMAIN prof.Layouts[li].Layers
                THEN [pm |-> a.pm, ok |-> FALSE]
                ELSE [pm |-> [a.pm EXCEPT
                                !.Profiles[a.idx].Layouts[li].Layers =
                                    MapPut(@, layerName, StoreLayer(CorneLen, baseKeys)),
                                !.Profiles[a.idx].Layouts[li].ModifierMaps =
                                    MapPut(@, layerName, StoreCombos),
                                !.Profiles[a.idx].ModifiedAt = now],
                      ok |-> TRUE]

\* App.RemoveCustomLayer up to the call of SaveProfiles
StoreRemoveCustomLayer(m, layerName, now) ==
    LET a == GetActiveProfile(m) IN
    IF a.idx = 0 THEN [pm |-> a.pm, ok |-> FALSE]
    ELSE
        LET prof == a.pm.Profiles[a.idx]
            li == GetCurrentLayout(prof)
        IN  IF li = 0 THEN [pm |-> a.pm, ok |-> FALSE]
            ELSE IF layerName \in ProtectedLayers
                    \/ layerName \notin DOMAIN prof.Layouts[li].Layers
            THEN [pm |-> a.pm, ok |-> FALSE]
            ELSE [pm |-> [a.pm EXCEPT
                            !.Profiles[a.idx].Layouts[li].Layers = MapDelete(@, layerName),
                            !.Profiles[a.idx].Layouts[li].ModifierMaps =
                                MapDelete(@, layerName),
                            !.Profiles[a.idx].ModifiedAt = now,
                            !.Profiles[a.idx].CurrentLayer =
                                IF @ = layerName THEN "base" ELSE @],
                  ok |-> TRUE]

\* App.ImportLayout up to the call of SaveProfiles; jsonData is the text handed in
StoreImportLayout(m, jsonData, now) ==
    IF jsonData.kind # "doc" THEN [pm |-> m, ok |-> FALSE]
    ELSE
        LET a == GetActiveProfile(m) IN
        IF a.idx = 0 THEN [pm |-> a.pm, ok |-> FALSE]
        ELSE
            LET prof == a.pm.Profiles[a.idx]
                i == FirstIndex([k \in 1..Len(prof.Layouts) |->
                                    prof.Layouts[k].Name = jsonData.doc.Name])
            IN  [pm |-> [a.pm EXCEPT
                            !.Profiles[a.idx].Layouts =
                                IF i # 0 THEN [@ EXCEPT ![i] = jsonData.doc]
                                ELSE Append(@, jsonData.doc),
                            !.Profiles[a.idx].CurrentLayout = jsonData.doc.Name,
                            !.Profiles[a.idx].ModifiedAt = now],
                  ok |-> TRUE]

\* layouts of the import calls: one under a new name with the single layer nav, one
\* that replaces the layout Corne and has the single layer base
ImportLayouts ==
    {[Name |-> "Imported",
      Layers |-> [n \in {"nav"} |-> StoreLayer(CorneLen, baseKeys)],
      ModifierMaps |-> [n \in {"nav"} |-> {"ctrl", "ctrl+shift"}]],
     [Name |-> "Corne",
      Layers |-> [n \in {"base"} |-> StoreLayer(CorneLen, baseKeys)],
      ModifierMaps |-> [n \in {"base"} |-> StoreCombos]]}

\* the texts of the import calls: unparseable, or the JSON of a layout
ImportArgs == {Torn} \cup {Marshal(l) : l \in ImportLayouts}

AppAddCustomLayer ==
    \E p \in DOMAIN procs, name \in AddInputs \cup {""} :
        /\ Ready(p)
        /\ Mutation(p, "AddCustomLayer", name, StoreAddCustomLayer(pm, name, tick + 1))

AppRemoveCustomLayer ==
    \E p \in DOMAIN procs, name \in RemoveInputs :
        /\ Ready(p)
        /\ Mutation(p, "RemoveCustomLayer", name,
                    StoreRemoveCustomLayer(pm, name, tick + 1))

AppImportLayout ==
    \E p \in DOMAIN procs, jsonData \in ImportArgs :
        /\ Ready(p)
        /\ Mutation(p, "ImportLayout",
                    IF jsonData.kind = "doc" THEN jsonData.doc.Name ELSE "",
                    StoreImportLayout(pm, jsonData, tick + 1))

ApiNext ==
    \/ AppSetCurrentLayer
    \/ AppSetKeyboardType
    \/ AppResetLayer
    \/ AppAddCustomLayer
    \/ AppRemoveCustomLayer
    \/ AppImportLayout
    \/ AppCreateNewProfile
    \/ AppSetActiveProfile
    \/ SaveMarshal
    \/ SaveOpenTemp
    \/ SaveWriteTemp
    \/ SaveRename

\* one call at a time on the cursor, the layers and the layouts, no injected fault
SpecApi == AppInit(1) /\ [][ApiNext]_vars

\* C18: cursor validity.  Whenever no call is in progress, the active profile's
\* currentLayout names one of its layouts and its currentLayer is a layer of that
\* layout.
C18_CursorValid ==
    (\A p \in DOMAIN procs : Quiet(p)) =>
        LET prof == pm.Profiles[GetActiveProfile(pm).idx] IN
        \E j \in 1..Len(prof.Layouts) :
            /\ prof.Layouts[j].Name = prof.CurrentLayout
            /\ prof.CurrentLayer \in DOMAIN prof.Layouts[j].Layers

\* the layouts of every profile, in order
LayoutsOf(m) == [k \in 1..Len(m.Profiles) |-> m.Profiles[k].Layouts]

\* C40: every layer accepted by add-custom-layer can be removed again.  In every
\* reachable store, when AddCustomLayer succeeds for a name, RemoveCustomLayer with
\* that name right after it succeeds too and every layout has the layers and the
\* Combination Maps it had before the add.
C40_AddThenRemove ==
    \A name \in LayerArgs :
        LET a == StoreAddCustomLayer(pm, name, tick + 1)
            r == StoreRemoveCustomLayer(a.pm, name, tick + 2)
        IN  a.ok => (r.ok /\ LayoutsOf(r.pm) = LayoutsOf(pm))

\* C31: customizations reload.  Whenever a save has returned success and the profile
\* file holds the serialisation of the store in memory, loading that file (a restart)
\* succeeds and yields the store in memory: the same profiles with their names,
\* colours, icons, layouts, canonical lists and Combination Maps, the same
\* activeProfile and the same cursor per profile; timestamps apart.
C31_ReloadEqual ==
    \A p \in DOMAIN procs :
        (/\ procs[p].pc = "returned"
         /\ procs[p].ok
         /\ procs[p].fault = "none"
         /\ procs[p].data # NoData
         /\ FileAt(profilePath) = Marshal(pm)) =>
            LET r == LoadProfiles(FileAt(profilePath)) IN
            /\ r.loaded.state = "loaded"
            /\ StoreContent(r.loaded.pm) = StoreContent(pm)

FaultNext ==
    \/ AppUpdateKey
    \/ AppSetCurrentLayer
    \/ AppAddCustomLayer
    \/ AppRemoveCustomLayer
    \/ SaveMarshal
    \/ SaveOpenTemp
    \/ SaveWriteTemp
    \/ SaveRename
    \/ SaveOpenTempFails
    \/ SaveWriteTempFails
    \/ SaveRenameFails

\* one call at a time on keys and layers, disk faults injected
SpecFaults == AppInit(1) /\ [][FaultNext]_vars

\* C30: changes are saved immediately.  Whenever a mutating call has returned
\* success, the profile file decodes to the store in memory.
C30_SavedOnSuccess ==
    \A p \in DOMAIN procs :
        (procs[p].pc = "returned" /\ procs[p].ok /\ procs[p].op # "none") =>
            FileAt(profilePath) = Marshal(pm)

(***************************************************************************)
(* Export and import of a layout.  A JSON text is a tree of tagged values; *)
(* ToJSON writes every field under its json tag, FromJSON reads the tags   *)
(* back and gives a field that is missing or null its zero value.          *)
(***************************************************************************)
JNull == [t |-> "null", v |-> 0]
JStr(s) == [t |-> "string", v |-> s]
JNum(n) == [t |-> "number", v |-> n]
JBool(b) == [t |-> "bool", v |-> b]
JArr(s) == [t |-> "array", v |-> s]
JObj(f) == [t |-> "object", v |-> f]

\* a nil slice is written as null
StringsJSON(s) == IF Len(s) = 0 THEN JNull ELSE JArr([i \in 1..Len(s) |-> JStr(s[i])])

\* a Key under the tags of its struct
KeyJSON(k) ==
    JObj([id |-> JStr(k.id), label |-> JStr(k.label), imagePath |-> JStr(k.imagePath),
          imageData |-> JStr(k.imageData), description |-> JStr(k.description),
          color |-> JStr(k.color), layer |-> JStr(k.layer),
          modifiers |-> StringsJSON(k.modifiers), row |-> JNum(k.row), col |-> JNum(k.col),
          side |-> JStr(k.side), keyType |-> JStr(k.keyType), customX |-> JNum(k.customX),
          customY |-> JNum(k.customY), isCustomPosition |-> JBool(k.isCustomPosition)])

KeysJSON(keys) == JArr([i \in 1..Len(keys) |-> KeyJSON(keys[i])])

\* a plausible slip: the Combination Maps are left out of the text
ToJSONWithoutMaps(kl) ==
    [kind |-> "doc",
     doc |-> JObj([name |-> JStr(kl.Name),
                   description |-> JStr(kl.Description),
                   layers |-> JObj([n \in DOMAIN kl.Layers |-> KeysJSON(kl.Layers[n])]),
                   created_at |-> JStr(kl.CreatedAt),
                   modified_at |-> JStr(kl.ModifiedAt)])]

\* KeyboardLayout.ToJSON; a time is written as the text of its instant
ToJSON(kl) ==
    [kind |-> "doc",
     doc |-> JObj([name |-> JStr(kl.Name),
                   description |-> JStr(kl.Description),
                   layers |-> JObj([n \in DOMAIN kl.Layers |-> KeysJSON(kl.Layers[n])]),
                   modifierMaps |->
                       JObj([n \in DOMAIN kl.ModifierMaps |->
                               JObj([c \in DOMAIN kl.ModifierMaps[n] |->
                                       KeysJSON(kl.ModifierMaps[n][c])])]),
                   created_at |-> JStr(kl.CreatedAt),
                   modified_at |-> JStr(kl.ModifiedAt)])]

\* the member of a JSON object under a tag, null when it is missing
Member(obj, tag) == IF tag \in DOMAIN obj.v THEN obj.v[tag] ELSE JNull

\* what json.Unmarshal stores for a member: its value, or the zero value for null
StrOf(j) == IF j.t = "string" THEN j.v ELSE ""
NumOf(j) == IF j.t = "number" THEN j.v ELSE 0
BoolOf(j) == IF j.t = "bool" THEN j.v ELSE FALSE
ListOf(j) == IF j.t = "array" THEN j.v ELSE <<>>
MapOf(j) == IF j.t = "object" THEN j.v ELSE <<>>
TimeOf(j) == IF j.t = "string" THEN j.v ELSE 0

KeyOf(j) ==
    [id |-> StrOf(Member(j, "id")), label |-> StrOf(Member(j, "label")),
     imagePath |-> StrOf(Member(j, "imagePath")),
     imageData |-> StrOf(Member(j, "imageData")),
     description |-> StrOf(Member(j, "description")), color |-> StrOf(Member(j, "color")),
     layer |-> StrOf(Member(j, "layer")),
     modifiers |-> LET m == ListOf(Member(j, "modifiers")) IN
                   [i \in 1..Len(m) |-> StrOf(m[i])],
     row |-> NumOf(Member(j, "row")), col |-> NumOf(Member(j, "col")),
     side |-> StrOf(Member(j, "side")), keyType |-> StrOf(Member(j, "keyType")),
     customX |-> NumOf(Member(j, "customX")), customY |-> NumOf(Member(j, "customY")),
     isCustomPosition |-> BoolOf(Member(j, "isCustomPosition"))]

KeysOf(j) == LET l == ListOf(j) IN [i \in 1..Len(l) |-> KeyOf(l[i])]

\* FromJSON: the layout a text decodes to, or an error
FromJSON(jsonStr) ==
    IF jsonStr.kind # "doc" THEN [ok |-> FALSE]
    ELSE IF jsonStr.doc.t # "object" THEN [ok |-> FALSE]
    ELSE
        LET doc == jsonStr.doc
            layers == MapOf(Member(doc, "layers"))
            maps == MapOf(Member(doc, "modifierMaps"))
        IN  [ok |-> TRUE,
             layout |->
                [Name |-> StrOf(Member(doc, "name")),
                 Description |-> StrOf(Member(doc, "description")),
                 Layers |-> [n \in DOMAIN layers |-> KeysOf(layers[n])],
                 ModifierMaps |->
                     [n \in DOMAIN maps |->
                         LET combos == MapOf(maps[n]) IN
                         [c \in DOMAIN combos |-> KeysOf(combos[c])]],
                 CreatedAt |-> TimeOf(Member(doc, "created_at")),
                 ModifiedAt |-> TimeOf(Member(doc, "modified_at"))]]

\* App.ExportLayout on the active profile prof
ExportLayout(prof) ==
    LET li == GetCurrentLayout(prof) IN
    IF li = 0 THEN [ok |-> FALSE, text |-> Torn]
    ELSE [ok |-> TRUE, text |-> ToJSON(prof.Layouts[li])]

\* App.ImportLayout on the active profile prof, up to the call of SaveProfiles
ImportLayout(prof, jsonData, now) ==
    LET r == FromJSON(jsonData) IN
    IF ~r.ok THEN [prof |-> prof, ok |-> FALSE]
    ELSE
        LET i == FirstIndex([k \in 1..Len(prof.Layouts) |->
                                prof.Layouts[k].Name = r.layout.Name])
        IN  [prof |-> [prof EXCEPT
                         !.Layouts = IF i # 0 THEN [@ EXCEPT ![i] = r.layout]
                                     ELSE Append(@, r.layout),
                         !.CurrentLayout = r.layout.Name,
                         !.ModifiedAt = now],
             ok |-> TRUE]

\* the Corne layout as NewProfile names it
CorneLayout == [DefaultCorneLayout(0) EXCEPT !.Name = "Corne"]

\* the active profile around the layout under test: the two layouts of NewProfile,
\* the cursor on the second
ProfileOf(kl) ==
    [Layouts |-> <<CorneLayout, kl>>, CurrentLayout |-> kl.Name, ModifiedAt |-> 0]

\* a profile that has no layout of the name Tenkeyless
CorneOnly == [Layouts |-> <<CorneLayout>>, CurrentLayout |-> "Corne", ModifiedAt |-> 0]

\* the texts of the import calls: the export of the current layout, or an unparseable one
ExportTexts == {ExportLayout(ProfileOf(layout)).text, Torn}

\* ImportLayout of a text; the layout under test is the profile's current one afterwards
ImportText ==
    \E jsonData \in ExportTexts :
        LET r == ImportLayout(ProfileOf(layout), jsonData, clock + 1) IN
        /\ Commit(r.prof.Layouts[GetCurrentLayout(r.prof)])
        /\ last' = [op |-> "ImportLayout", layer |-> "", combo |-> "", ok |-> r.ok,
                    created |-> FALSE]

ExportNext == LayoutNext \/ ImportText

SpecExport == LayoutInit /\ [][ExportNext]_vars

\* name, description, canonical key lists and Combination Maps agree
SameLayout(a, b) ==
    /\ a.Name = b.Name
    /\ a.Description = b.Description
    /\ a.Layers = b.Layers
    /\ a.ModifierMaps = b.ModifierMaps

\* C28: export/import round trip.  In every reachable layout, importing the text
\* that exporting the current layout gives succeeds and yields a layout equal to the
\* exported one in name, description, every canonical key list and every Combination
\* Map entry; it stands in the place of the same-named layout, or at the end when the
\* profile has no layout of that name, and the other layout is as it was.
C28_ExportImportRoundTrip ==
    LET e == ExportLayout(ProfileOf(layout))
        r == ImportLayout(ProfileOf(layout), e.text, clock + 1)
        a == ImportLayout(CorneOnly, e.text, clock + 1)
    IN  /\ e.ok
        /\ r.ok
        /\ Len(r.prof.Layouts) = 2
        /\ r.prof.Layouts[1] = CorneLayout
        /\ SameLayout(r.prof.Layouts[2], layout)
        /\ a.ok
        /\ Len(a.prof.Layouts) = 2
        /\ a.prof.Layouts[1] = CorneLayout
        /\ SameLayout(a.prof.Layouts[2], layout)

\* C28 witness: the exported text of a layout with an edited canonical key and a
\* lazily created combo has just been imported.
C28_Witness ==
    /\ last.op = "ImportLayout"
    /\ last.ok
    /\ layout.Layers["base"][1] = KeyLabelled
    /\ "ctrl+fn" \in CombosOf(layout, "base")
    /\ "nav" \in DOMAIN layout.Layers

(***************************************************************************)
(* Frame of a key update across layers, combinations and profiles          *)
(***************************************************************************)
\* App.UpdateKey (no modifiers) and App.UpdateModifierKey on the profile at index
\* active, with the cursor on layer and mods, up to the call of SaveProfiles
ProfilesUpdateKey(profiles, active, layer, mods, key, now) ==
    LET prof == profiles[active]
        li == GetCurrentLayout(prof)
    IN  IF li = 0 THEN [profiles |-> profiles, ok |-> FALSE]
        ELSE
            LET r == IF Len(mods) = 0 THEN UpdateKey(prof.Layouts[li], layer, key, now)
                     ELSE UpdateModifierKeyByActiveModifiers(prof.Layouts[li], layer, mods,
                                                             key, now)
            IN  [profiles |-> [profiles EXCEPT
                                 ![active].Layouts[li] = r.kl,
                                 ![active].ModifiedAt = IF r.ok THEN now ELSE @],
                 ok |-> r.ok]

\* C35: frame of updateKey.  In every reachable layout a successful updateKey for
\* layer L, modifier list M and key K changes only the entry with K's id in the list
\* addressed by (L, M): the other keys of that list, L's canonical list when M is not
\* empty, the other combo variants of L, the other layers and their Combination Maps,
\* the other layout of the profile and the other profile are as they were.
C35_UpdateFrame ==
    \A L \in LayerInputs, M \in LayoutModLists, K \in KeyInputs :
        LET before == <<ProfileOf(layout), ProfileOf(layout)>>
            r == ProfilesUpdateKey(before, 1, L, M, K, clock + 1)
            kl == r.profiles[1].Layouts[2]
            c == ComboKeyUpd(M)
            old == GetKeysForActiveModifiers(layout, L, M, clock + 1).keys
            new == IF Len(M) = 0 THEN kl.Layers[L] ELSE kl.ModifierMaps[L][c]
        IN  r.ok =>
                /\ Len(r.profiles) = 2
                /\ r.profiles[2] = before[2]
                /\ Len(r.profiles[1].Layouts) = 2
                /\ r.profiles[1].Layouts[1] = CorneLayout
                /\ r.profiles[1].CurrentLayout = before[1].CurrentLayout
                /\ kl.Name = layout.Name
                /\ kl.Description = layout.Description
                /\ DOMAIN kl.Layers = DOMAIN layout.Layers
                /\ DOMAIN kl.ModifierMaps = DOMAIN layout.ModifierMaps
                /\ \A other \in DOMAIN layout.Layers \ {L} :
                       /\ kl.Layers[other] = layout.Layers[other]
                       /\ kl.ModifierMaps[other] = layout.ModifierMaps[other]
                /\ Len(M) = 0 => kl.ModifierMaps[L] = layout.ModifierMaps[L]
                /\ Len(M) # 0 =>
                       /\ kl.Layers[L] = layout.Layers[L]
                       /\ DOMAIN kl.ModifierMaps[L] = DOMAIN layout.ModifierMaps[L] \cup {c}
                       /\ \A c2 \in DOMAIN layout.ModifierMaps[L] \ {c} :
                              kl.ModifierMaps[L][c2] = layout.ModifierMaps[L][c2]
                /\ Len(new) = Len(old)
                /\ \A i \in 1..Len(old) : old[i].id # K.id => new[i] = old[i]
                /\ \E i \in 1..Len(new) : new[i] = K

\* C35 witness: updateKey under [shift, ctrl] has just succeeded on base while the
\* layer nav exists; the variant's first key carries the edit, its second key and
\* the canonical list of base do not.
C35_Witness ==
    /\ last.op = "UpdateModifierKeyByActiveModifiers"
    /\ last.layer = "base"
    /\ last.combo = "ctrl+shift"
    /\ last.ok
    /\ "nav" \in DOMAIN layout.Layers
    /\ layout.ModifierMaps["base"]["ctrl+shift"][1].label = "Q"
    /\ layout.ModifierMaps["base"]["ctrl+shift"][2].label = ""
    /\ layout.Layers["base"][1].label = ""

(***************************************************************************)
(* Start-up: NewApp loads the profile file, falls back to the legacy       *)
(* config.json or to a fresh profile, and saves.                           *)
(***************************************************************************)
\* a plausible slip: the unparseable file is moved to the name the save writes to
backupPathIsTempPath == profilePath \o ".tmp"

backupPath == profilePath \o ".backup"

configPath == "config.json"

StartPaths == Paths \cup {backupPath, configPath}

\* the zero value of App.profileManager
ZeroStore == [Profiles |-> <<>>, ActiveProfile |-> "", LastModified |-> 0]

NewDefaultProfile(existingConfig, now) ==
    [ID |-> "default",
     Name |-> "Default",
     Icon |-> "",
     BackgroundColor |-> "#6366f1",
     ModifiedAt |-> now,
     Layouts |-> existingConfig.Layouts,
     CurrentLayout |-> existingConfig.CurrentLayout,
     CurrentLayer |-> existingConfig.CurrentLayer,
     ActiveModifiers |-> existingConfig.ActiveModifiers]

loadLegacyConfig(file) ==
    IF file.kind = "doc" THEN [ok |-> TRUE, config |-> file.doc] ELSE [ok |-> FALSE]

\* a plausible slip: no fresh profile when there is nothing to migrate
defaultStoreMigratesOnly(legacy, now) ==
    IF loadLegacyConfig(legacy).ok
    THEN [pm |-> [Profiles |-> <<NewDefaultProfile(loadLegacyConfig(legacy).config, now)>>,
                  ActiveProfile |-> "default",
                  LastModified |-> now],
          path |-> "migrated"]
    ELSE [pm |-> ZeroStore, path |-> "fresh"]

\* NewApp when LoadProfiles failed: the store it builds and the fallback it took
defaultStore(legacy, now) ==
    IF loadLegacyConfig(legacy).ok
    THEN [pm |-> [Profiles |-> <<NewDefaultProfile(loadLegacyConfig(legacy).config, now)>>,
                  ActiveProfile |-> "default",
                  LastModified |-> now],
          path |-> "migrated"]
    ELSE [pm |-> FreshStore(now), path |-> "fresh"]

LegacyConfigs ==
    {[Layouts |-> NewProfile("", 0).Layouts, CurrentLayout |-> "Corne",
      CurrentLayer |-> "lower", ActiveModifiers |-> <<"ctrl">>],
     [Layouts |-> <<>>, CurrentLayout |-> "", CurrentLayer |-> "",
      ActiveModifiers |-> <<>>],
     [Layouts |-> NewProfile("", 0).Layouts, CurrentLayout |-> "Gone",
      CurrentLayer |-> "ghost", ActiveModifiers |-> <<>>]}

LegacyFiles == {NoFile, Torn} \cup {Marshal(c) : c \in LegacyConfigs}

\* profile files at start-up: none, unparseable (cut short, empty), or a store of at
\* most one profile
StartProfileFiles ==
    {NoFile, Torn, Empty} \cup
    {Marshal([Profiles |-> ps, ActiveProfile |-> a, LastModified |-> 0]) :
        ps \in SeqsUpTo(StoredProfiles, 1), a \in {"", "p1", "zz"}}

StartInit ==
    \E pf \in StartProfileFiles, lf \in LegacyFiles, bf \in {NoFile, Empty} :
        /\ stored = pf
        /\ loaded = NotLoaded
        /\ pm = ZeroStore
        /\ procs = [p \in {1} |-> [IdleProc EXCEPT !.pc = "start", !.op = "NewApp"]]
        /\ inodes = [i \in 1..5 |-> IF i = 1 /\ pf # NoFile THEN pf
                                    ELSE IF i = 2 /\ lf # NoFile THEN lf
                                    ELSE IF i = 3 /\ bf # NoFile THEN bf
                                    ELSE Free]
        /\ dir = [x \in StartPaths |->
                    IF x = profilePath /\ pf # NoFile THEN 1
                    ELSE IF x = configPath /\ lf # NoFile THEN 2
                    ELSE IF x = backupPath /\ bf # NoFile THEN 3
                    ELSE 0]
        /\ tick = 0
        /\ CanonIdle /\ LayoutIdle

\* NewApp: app.LoadProfiles(), with the rename of an unparseable file to .backup
StartLoad ==
    \E p \in DOMAIN procs :
        LET r == LoadProfiles(FileAt(profilePath))
            ok == r.loaded.state = "loaded"
            d == IF ~ok /\ r.loaded.why = "corrupted"
                 THEN [dir EXCEPT ![backupPath] = dir[profilePath], ![profilePath] = 0]
                 ELSE dir
        IN  /\ procs[p].pc = "start"
            /\ loaded' = r.loaded
            /\ pm' = IF ok THEN r.loaded.pm ELSE pm
            /\ dir' = d
            /\ inodes' = Collect(inodes, d, procs)
            /\ procs' = [procs EXCEPT ![p].pc = IF ok THEN "save" ELSE "fallback",
                                      ![p].arg = IF ok THEN "loaded" ELSE ""]
            /\ UNCHANGED <<tick, stored, canonVars, layoutVars>>

\* NewApp: the migration of config.json, else the fresh default profile
StartFallback ==
    \E p \in DOMAIN procs :
        LET r == defaultStore(FileAt(configPath), tick + 1) IN
        /\ procs[p].pc = "fallback"
        /\ pm' = r.pm
        /\ procs' = [procs EXCEPT ![p].pc = "save", ![p].arg = r.path]
        /\ tick' = tick + 1
        /\ UNCHANGED <<dir, inodes, notApp>>

StartNext ==
    \/ StartLoad
    \/ StartFallback
    \/ SaveMarshal
    \/ SaveOpenTemp
    \/ SaveWriteTemp
    \/ SaveRename
    \/ SaveOpenTempFails
    \/ SaveWriteTempFails
    \/ SaveRenameFails

SpecStart == StartInit /\ [][StartNext]_vars

\* C12: an unparseable profile file is backed up.  When the profile file existed and
\* was not parseable, the load has failed and from then on, through seeding or
\* migration and the save of the new store, the file's original content is under the
\* .backup name.
C12_CorruptBackedUp ==
    (stored.kind \notin {"absent", "doc"} /\ loaded # NotLoaded) =>
        /\ loaded.state = "failed"
        /\ FileAt(backupPath) = stored
        /\ FileAt(profilePath) # stored

\* C12 witness: start-up has ended, the new store is saved in the profile file and the
\* cut-short original is under the .backup name.
C12_Witness ==
    /\ stored = Torn
    /\ procs[1].pc = "returned" /\ procs[1].ok
    /\ FileAt(profilePath) = Marshal(pm)
    /\ FileAt(backupPath) = Torn
    /\ dir[backupPath] = 1

\* C13: the store is never left empty.  Once start-up is past its load and fallback,
\* the store in memory holds a profile, whatever the two files held and whether or not
\* the save succeeds; the loaded store is used exactly when the load succeeds, the
\* migrated profile exactly when the load fails and config.json parses, the fresh
\* profile exactly when both fail.
C13_NeverEmpty ==
    \A p \in DOMAIN procs :
        procs[p].pc \notin {"start", "fallback"} =>
            LET loadOk == stored.kind = "doc" /\ validateProfiles(stored.doc).ok
                legacyOk == FileAt(configPath).kind = "doc"
            IN  /\ Len(pm.Profiles) >= 1
                /\ procs[p].arg \in {"loaded", "migrated", "fresh"}
                /\ procs[p].arg = "loaded" <=> loadOk
                /\ procs[p].arg = "migrated" <=> (~loadOk /\ legacyOk)
                /\ procs[p].arg = "fresh" <=> (~loadOk /\ ~legacyOk)
                /\ procs[p].arg = "migrated" => pm.Profiles[1].ID = "default"
                /\ procs[p].arg = "fresh" => pm.Profiles = FreshStore(tick).Profiles

\* C13 witness: the profile file failed validation, config.json was unparseable, the
\* fresh profile was seeded and the save failed: start-up has ended with one profile.
C13_Witness ==
    /\ stored.kind = "doc"
    /\ loaded.state = "failed"
    /\ FileAt(configPath) = Torn
    /\ procs[1].pc = "returned" /\ procs[1].fault = "write"
    /\ procs[1].arg = "fresh"
    /\ Len(pm.Profiles) = 1

\* Profile.GetCurrentLayout as a call: the index it returns and the profile after it;
\* the method assigns no field of the profile
CallGetCurrentLayout(prof) == [prof |-> prof, idx |-> GetCurrentLayout(prof)]

\* C34: currentLayout() never raises and self-heals.  For every profile of the store
\* with at least one layout the call returns the first layout the cursor names, or
\* the first layout when the cursor names none, and after the call the profile's
\* currentLayout names one of its layouts.
C34_CurrentLayoutHeals ==
    \A k \in 1..Len(pm.Profiles) :
        LET prof == pm.Profiles[k]
            r == CallGetCurrentLayout(prof)
            named == {j \in 1..Len(prof.Layouts) : prof.Layouts[j].Name = prof.CurrentLayout}
        IN  Len(prof.Layouts) >= 1 =>
                /\ r.idx \in 1..Len(prof.Layouts)
                /\ named # {} => (r.idx \in named /\ \A j \in named : r.idx <= j)
                /\ named = {} => r.idx = 1
                /\ \E j \in 1..Len(r.prof.Layouts) :
                       r.prof.Layouts[j].Name = r.prof.CurrentLayout

\* C37: start-up never destroys the content of an existing profile file.  When the
\* profile file existed at start-up, was not loaded, and NewApp has written the new
\* store in its place, the file's previous content is under the .backup name.
C37_StartupKeepsBytes ==
    (/\ stored.kind # "absent"
     /\ loaded # NotLoaded
     /\ loaded.state = "failed"
     /\ FileAt(profilePath) # stored
     /\ FileAt(profilePath) = Marshal(pm)) =>
        FileAt(backupPath) = stored

\* C38: after start-up by any branch the cursor of the active profile resolves.  Once
\* start-up is past its load and fallback, the active profile has at least one
\* layout, its currentLayout names one of them and its currentLayer is a layer of it.
C38_StartupCursorResolves ==
    \A p \in DOMAIN procs :
        procs[p].pc \notin {"start", "fallback"} =>
            LET a == GetActiveProfile(pm) IN
            /\ a.idx # 0
            /\ Len(a.pm.Profiles[a.idx].Layouts) >= 1
            /\ \E j \in 1..Len(a.pm.Profiles[a.idx].Layouts) :
                   /\ a.pm.Profiles[a.idx].Layouts[j].Name = a.pm.Profiles[a.idx].CurrentLayout
                   /\ a.pm.Profiles[a.idx].CurrentLayer \in
                          DOMAIN a.pm.Profiles[a.idx].Layouts[j].Layers

=============================================================================
